---- MODULE Spec2Model ----
(***************************************************************************)
(* Model of jgato/observability_performance:                               *)
(*   - csv_combiner.py : CSVCombiner.read_csv_file / combine_csv_files     *)
(*   - main.py         : main, observability_impact_analysis (hub) and     *)
(*                       observability_impact_analysis_spoke,              *)
(*                       show_hourly_analysis                              *)
(*   - prometheus_client.py : get_*_for_date_range, the display_* and      *)
(*                       export_* methods                                  *)
(* Instants are whole hours counted from 2024-01-01 00:00:00; a datetime   *)
(* is an integer number of hours, a formatted instant is a record.         *)
(***************************************************************************)
EXTENDS Integers, Sequences, FiniteSets, TLC

\* ------------------------------------------------------------------------
\* Bounds of the model
\* ------------------------------------------------------------------------

\* rows (over all files on disk) of a checked file system
MaxRows == 3

\* largest --days of a checked run, and most day labels of a checked figure
MaxDays == 3

\* lines of the files the command line tool is checked with
MaxColRows == 2

\* samples of a result, and points of a series, a method is called with
MaxSamples == 2

\* ------------------------------------------------------------------------
\* Generic helpers
\* ------------------------------------------------------------------------

Range(s) == {s[i] : i \in DOMAIN s}

\* Python's None and a present value, kept apart from every string
None == <<>>
Some(s) == <<s>>

\* a printed line: its fixed text and the values formatted into it
Line(text, values) == [text |-> text, values |-> values]

\* all sequences over S without repetition
RECURSIVE Arrangements(_)
Arrangements(S) ==
    {<<>>} \cup UNION {{<<x>> \o t : t \in Arrangements(S \ {x})} : x \in S}

\* all orderings of the sequence s (as sequences of its elements)
Orderings(s) ==
    {[i \in DOMAIN s |-> s[p[i]]] :
        p \in {q \in [DOMAIN s -> DOMAIN s] : Range(q) = DOMAIN s}}

\* ========================================================================
\* csv_combiner.py
\* ========================================================================

\* the cells a checked CSV file may hold
TS0 == "2024-01-01 00:00:00"
TS0Alt == "2024-1-1 0:0:0"
TS1 == "2024-01-01 01:00:00"
TSBad == "01/01/2024 00:00:00"
TS2 == "2024-01-02 00:00:00"
TS3 == "2024-01-03 06:00:00"

\* str.strip() on the cells of the model
Strip(s) ==
    CASE s = " 30 " -> "30"
      [] s = " " -> ""
      [] OTHER -> s

\* datetime.strptime(s, '%Y-%m-%d %H:%M:%S'): the instant, or ValueError
StrptimeOk(s) == s \in {TS0, TS0Alt, TS1, TS2, TS3}
Strptime(s) ==
    CASE s = TS0 -> 0
      [] s = TS0Alt -> 0
      [] s = TS1 -> 1
      [] s = TS2 -> 24
      [] s = TS3 -> 54

\* float(s): the number, or ValueError
FloatOk(s) == s \in {"0", "1", "10", "20", "30"}
Float(s) ==
    CASE s = "0" -> 0
      [] s = "1" -> 1
      [] s = "10" -> 10
      [] s = "20" -> 20
      [] s = "30" -> 30

\* csv.DictReader row: row.get(col, default) for the cells of one line;
\* a line shorter than the header leaves the missing columns at None
HasColumn(header, col) == \E i \in DOMAIN header : header[i] = col
RowGet(header, cells, col, default) ==
    IF HasColumn(header, col)
    THEN LET i == CHOOSE j \in DOMAIN header : header[j] = col
         IN IF i <= Len(cells) THEN Some(cells[i]) ELSE None
    ELSE Some(default)

\* Python truthiness of an optional string
Truthy(v) == v # None /\ v # Some("")

\* the recognised names of the value column, in the order they are tried
ValueColumns == <<"value_seconds", "value_bytes", "value_bytes_per_s", "value", "Value">>
\* a choice of the last recognised name present instead of the first
SelectedColumn_LastPresent(header) ==
    IF \E k \in DOMAIN ValueColumns : HasColumn(header, ValueColumns[k])
    THEN LET k == CHOOSE j \in DOMAIN ValueColumns :
                    /\ HasColumn(header, ValueColumns[j])
                    /\ \A l \in (j+1)..Len(ValueColumns) : ~HasColumn(header, ValueColumns[l])
         IN Some(ValueColumns[k])
    ELSE None

\* the value column of a row: first present of the recognised names
SelectedColumn(header) ==
    IF \E k \in DOMAIN ValueColumns : HasColumn(header, ValueColumns[k])
    THEN LET k == CHOOSE j \in DOMAIN ValueColumns :
                    /\ HasColumn(header, ValueColumns[j])
                    /\ \A l \in 1..(j-1) : ~HasColumn(header, ValueColumns[l])
         IN Some(ValueColumns[k])
    ELSE None

\* self.combined_data: a dict, kept as its items in insertion order
DictKeys(d) == {d[i][1] : i \in DOMAIN d}
DictLookup(d, k) == d[CHOOSE i \in DOMAIN d : d[i][1] = k][2]

\* a store that keeps the first value written at a key
DictSet_KeepFirst(d, k, v) ==
    IF k \in DictKeys(d) THEN d ELSE Append(d, <<k, v>>)

\* a store that adds the value written to the one already at the key
DictSet_Accumulate(d, k, v) ==
    IF k \in DictKeys(d)
    THEN [i \in DOMAIN d |-> IF d[i][1] = k THEN <<k, d[i][2] + v>> ELSE d[i]]
    ELSE Append(d, <<k, v>>)

\* self.combined_data[timestamp] = value
DictSet(d, k, v) ==
    IF k \in DictKeys(d)
    THEN [i \in DOMAIN d |-> IF d[i][1] = k THEN <<k, v>> ELSE d[i]]
    ELSE Append(d, <<k, v>>)

\* sorted(items, key=lambda x: x[0]): stable insertion sort on the key
RECURSIVE InsertSorted(_, _)
InsertSorted(s, item) ==
    IF s = <<>> THEN <<item>>
    ELSE IF item[1] < s[1][1] THEN <<item>> \o s
    ELSE <<s[1]>> \o InsertSorted(Tail(s), item)

\* the items left in insertion order
SortedItems_Unsorted(d) == d

RECURSIVE SortedItems(_)
SortedItems(d) ==
    IF d = <<>> THEN <<>>
    ELSE InsertSorted(SortedItems(SubSeq(d, 1, Len(d) - 1)), d[Len(d)])

\* the object freshly constructed
NewCombiner == [combined_data |-> <<>>, metric_name |-> Some(""), metric_unit |-> ""]

\* One pass of the row loop of read_csv_file over the lines from k on.
\* st = [obj, count, log, raised, printed]; log records every insertion made.
RECURSIVE ReadRows(_, _, _, _)
ReadRows(header, rows, k, st) ==
    IF k > Len(rows) THEN st
    ELSE IF rows[k] = <<>> THEN ReadRows(header, rows, k + 1, st)
    ELSE
    LET cells == rows[k]
        name == IF ~Truthy(st.obj.metric_name)
                THEN RowGet(header, cells, "metric_name", "Unknown Metric")
                ELSE st.obj.metric_name
        st1 == [st EXCEPT !.obj.metric_name = name]
        ts_raw == RowGet(header, cells, "timestamp", "")
        col == SelectedColumn(header)
        val_raw == IF col = None THEN None ELSE RowGet(header, cells, col[1], "")
    IN  IF ts_raw = None \/ (col # None /\ val_raw = None)
        THEN \* None.strip(): AttributeError, caught by the outer handler
             [st1 EXCEPT !.raised = TRUE]
        ELSE
        LET timestamp_str == Strip(ts_raw[1])
            value_str == IF col = None THEN None ELSE Some(Strip(val_raw[1]))
        IN  IF timestamp_str # "" /\ Truthy(value_str)
            THEN IF StrptimeOk(timestamp_str) /\ FloatOk(value_str[1])
                 THEN LET t == Strptime(timestamp_str)
                          v == Float(value_str[1])
                      IN ReadRows(header, rows, k + 1,
                            [st1 EXCEPT !.obj.combined_data = DictSet(@, t, v),
                                        !.count = @ + 1,
                                        !.log = Append(@, <<t, v>>)])
                 ELSE \* ValueError: the row is skipped
                      ReadRows(header, rows, k + 1,
                            [st1 EXCEPT !.printed = Append(@, Line("Skipping invalid row:", <<>>))])
            ELSE ReadRows(header, rows, k + 1, st1)

\* a reader that drops what was combined so far when a file cannot be opened
ReadCsvFile_MissingClears(obj, file, log) ==
    IF ~file.exists
    THEN [obj |-> [obj EXCEPT !.combined_data = <<>>], ret |-> 0, log |-> log,
          printed |-> <<Line("File not found:", <<>>)>>]
    ELSE LET st == ReadRows(file.header, file.rows, 1,
                            [obj |-> obj, count |-> 0, log |-> log, raised |-> FALSE,
                             printed |-> <<>>])
         IN [obj |-> st.obj, ret |-> IF st.raised THEN 0 ELSE st.count, log |-> st.log,
             printed |-> Append(st.printed,
                                IF st.raised THEN Line("Error reading", <<>>)
                                ELSE Line("Read data points from", <<st.count>>))]

\* read_csv_file(filepath): [obj, ret, log, printed]
ReadCsvFile(obj, file, log) ==
    IF ~file.exists
    THEN [obj |-> obj, ret |-> 0, log |-> log,
          printed |-> <<Line("File not found:", <<>>)>>]
    ELSE LET st == ReadRows(file.header, file.rows, 1,
                            [obj |-> obj, count |-> 0, log |-> log, raised |-> FALSE,
                             printed |-> <<>>])
         IN [obj |-> st.obj, ret |-> IF st.raised THEN 0 ELSE st.count, log |-> st.log,
             printed |-> Append(st.printed,
                                IF st.raised THEN Line("Error reading", <<>>)
                                ELSE Line("Read data points from", <<st.count>>))]

\* the loop of combine_csv_files over the files from k on
RECURSIVE ReadAll(_, _, _)
ReadAll(files, k, acc) ==
    IF k > Len(files) THEN acc
    ELSE LET r == ReadCsvFile(acc.obj, files[k], acc.log)
         IN ReadAll(files, k + 1,
                    [obj |-> r.obj, total_read |-> acc.total_read + r.ret, log |-> r.log,
                     returns |-> Append(acc.returns, r.ret),
                     printed |-> acc.printed \o r.printed])

\* combine_csv_files(filepaths) on the files the paths name
CombineFiles(obj, files) ==
    LET Summary(acc, sorted_data) ==
            [obj |-> acc.obj,
             timestamps |-> [i \in DOMAIN sorted_data |-> sorted_data[i][1]],
             values |-> [i \in DOMAIN sorted_data |-> sorted_data[i][2]],
             total_read |-> acc.total_read,
             unique_count |-> Len(sorted_data),
             duplicates_removed |-> acc.total_read - Len(sorted_data),
             log |-> acc.log,
             returns |-> acc.returns,
             printed |-> acc.printed \o
                         <<Line("Total data points read:", <<acc.total_read>>),
                           Line("Unique data points:", <<Len(sorted_data)>>),
                           Line("Duplicates removed:", <<acc.total_read - Len(sorted_data)>>)>>]
        Sorted(acc) == Summary(acc, SortedItems(acc.obj.combined_data))
    IN  Sorted(ReadAll(files, 1, [obj |-> obj, total_read |-> 0, log |-> <<>>,
                                  returns |-> <<>>,
                                  printed |-> <<Line("Combining CSV files...", <<Len(files)>>)>>]))

\* ------------------------------------------------------------------------
\* State of the combiner
\* ------------------------------------------------------------------------
VARIABLES
    disk,            \* path -> file (header, lines) or a file that cannot be opened
    combiner,        \* the CSVCombiner object: combined_data, metric_name, metric_unit
    filepaths,       \* argument of the last combine_csv_files call
    combined,        \* what the last call returned and printed
    prior,           \* the object at the entry of the last call
    called,          \* combine_csv_files has returned at least once
    \* --- main.py: one run of the analysis tool
    args,            \* the parsed command line: date, days, spoke, day_labels
    store,           \* what the metrics backend holds (external collaborator)
    pc,              \* position of the run
    exit_code,       \* process exit status, None while running
    client,          \* a PrometheusClient has been created
    frame,           \* locals of the running analysis function
    requests,        \* every request sent to the backend, in order, with its outcome
    reports,         \* what the display functions printed, in order
    failure,         \* why the analysis stopped early: "none", "backend", "TypeError"
    \* --- the csv_combiner.py command line tool and the figures
    cli,             \* the tool's last run: its arguments and what main() returned
    graph            \* the last figure drawn, or that none was drawn

csv_vars == <<disk, combiner, filepaths, combined, prior, called>>
run_vars == <<args, store, pc, exit_code, client, frame, requests, reports, failure>>
tool_vars == <<cli, graph>>
vars == <<disk, combiner, filepaths, combined, prior, called,
          args, store, pc, exit_code, client, frame, requests, reports, failure,
          cli, graph>>

NoFile == [exists |-> FALSE, header |-> <<>>, rows |-> <<>>]
CsvFile(header, rows) == [exists |-> TRUE, header |-> header, rows |-> rows]

BasicHeader == <<"timestamp", "value">>

\* the lines the files of the checked file systems are made of
BasicRows ==
    { <<TS0, "10">>, <<TS0Alt, "20">>, <<TS1, " 30 ">>,
      <<TSBad, "10">>,        \* unparsable timestamp
      <<TS1>> }               \* fewer fields than the header

RECURSIVE SeqsUpTo(_, _)
SeqsUpTo(S, n) ==
    IF n = 0 THEN {<<>>}
    ELSE LET shorter == SeqsUpTo(S, n - 1)
         IN shorter \cup {Append(s, x) : s \in {q \in shorter : Len(q) = n - 1}, x \in S}

\* file systems of two paths holding at most MaxRows lines in all; each path
\* names a file of the given header or a file that cannot be opened
Disks(header, rowset) ==
    LET lines == SeqsUpTo(rowset, MaxRows)
        both == UNION {{[a |-> SubSeq(s, 1, k), b |-> SubSeq(s, k + 1, Len(s))] :
                            k \in 0..Len(s)} : s \in lines}
    IN  {[p \in {"a.csv", "b.csv"} |->
            IF p = "a.csv" THEN CsvFile(header, c.a) ELSE CsvFile(header, c.b)] : c \in both}
        \cup {[p \in {"a.csv", "b.csv"} |->
            IF p = "a.csv" THEN CsvFile(header, s) ELSE NoFile] : s \in lines}
        \cup {[p \in {"a.csv", "b.csv"} |->
            IF p = "a.csv" THEN NoFile ELSE CsvFile(header, s)] : s \in lines}

BasicDisks == Disks(BasicHeader, BasicRows)

\* the file lists a call is checked with: every arrangement of the paths
PathLists == Arrangements({"a.csv", "b.csv"})

\* no run of main.py is in progress
NoArgs == [date |-> "", days |-> 0, spoke |-> FALSE, day_labels |-> None]
NoStore == [absent |-> {}, have |-> {}]
NoFrame == [date_str |-> 0, days |-> 0, day_labels |-> None, i |-> 0, cursor |-> 0,
            current_date |-> 0, iteration |-> <<>>, results_with_labels |-> <<>>,
            hourly |-> <<>>, hourly_start_time |-> None, hourly_end_time |-> None]
RunIdle ==
    /\ args = NoArgs
    /\ store = NoStore
    /\ pc = "idle"
    /\ exit_code = None
    /\ client = FALSE
    /\ frame = NoFrame
    /\ requests = <<>>
    /\ reports = <<>>
    /\ failure = "none"

\* the command line tool has not run and nothing has been drawn
NoCli == [fn |-> "main", csv_files |-> <<>>, day_labels |-> None, start_date |-> None,
          ret |-> None]
NoGraph == [drawn |-> FALSE]
ToolIdle ==
    /\ cli = NoCli
    /\ graph = NoGraph

\* no combiner is in use
CsvIdle ==
    /\ disk = [p \in {"a.csv", "b.csv"} |-> NoFile]
    /\ combiner = NewCombiner
    /\ filepaths = <<>>
    /\ combined = CombineFiles(NewCombiner, <<>>)
    /\ prior = NewCombiner
    /\ called = FALSE

InitCSV ==
    /\ disk \in BasicDisks
    /\ combiner = NewCombiner
    /\ filepaths = <<>>
    /\ combined = CombineFiles(NewCombiner, <<>>)
    /\ prior = NewCombiner
    /\ called = FALSE
    /\ RunIdle
    /\ ToolIdle

\* combine_csv_files(paths)
CombineCsvFiles(paths) ==
    \E r \in {CombineFiles(combiner, [i \in DOMAIN paths |-> disk[paths[i]]])} :
       /\ prior' = combiner
       /\ combiner' = r.obj
       /\ filepaths' = paths
       /\ combined' = [x \in DOMAIN r \ {"obj"} |-> r[x]]
       /\ called' = TRUE
       /\ UNCHANGED disk
       /\ UNCHANGED run_vars
       /\ UNCHANGED tool_vars

NextCSV == \E paths \in PathLists : CombineCsvFiles(paths)

SpecCSV == InitCSV /\ [][NextCSV]_vars


\* ========================================================================
\* prometheus_client.py
\* ========================================================================

\* strftime("%Y-%m-%dT%H:%M:%SZ") of an instant of January 2024, and the
\* reading of such a string back into an instant
Fmt(t) == [day |-> (t \div 24) + 1, hour |-> t % 24]
Unfmt(f) == (f.day - 1) * 24 + f.hour

\* the five get_*_for_date_range methods
Methods == {"bucket_usage", "cpu_usage", "memory_usage", "network_receive", "network_transmit"}

\* 'message' of the error_info each method builds
EmptyMessage(method, name) ==
    CASE method = "bucket_usage" -> <<"No bucket usage data found for bucket", name>>
      [] method = "cpu_usage" -> <<"No CPU usage data found for namespace", name>>
      [] method = "memory_usage" -> <<"No memory usage data found for namespace", name>>
      [] method = "network_receive" -> <<"No network receive data found for namespace", name>>
      [] method = "network_transmit" -> <<"No network transmit data found for namespace", name>>

\* 'suggestions' of the error_info each method builds
Suggestions(method) ==
    CASE method = "bucket_usage" ->
            <<"Verify the bucket name is correct",
              "Check if the bucket exists in NooBaa/OpenShift Data Foundation",
              "Ensure bucket monitoring is enabled",
              "Verify the date range contains data",
              "Check if the time range is too far in the past (data retention)">>
      [] method \in {"cpu_usage", "memory_usage"} ->
            <<"Verify the namespace name is correct",
              "Check if the namespace exists and has running containers",
              "Ensure container metrics collection is enabled",
              "Verify the date range contains data",
              "Check if the time range is too far in the past (data retention)",
              "Confirm that cAdvisor/kubelet metrics are being scraped">>
      [] method \in {"network_receive", "network_transmit"} ->
            <<"Verify the namespace name is correct",
              "Ensure pods in the namespace have active network traffic",
              "Verify the date range contains data",
              "Check data retention limits in Prometheus">>

\* the value a method returns when the backend answered with no series
EmptyResult(method, name, start_date, end_date) ==
    [status |-> "success",
     data |-> [resultType |-> "matrix", result |-> <<>>],
     error_info |-> [message |-> EmptyMessage(method, name),
                     suggestions |-> Suggestions(method),
                     time_range |-> <<start_date, "to", end_date>>]]

\* a method that raises on an answer without series
GetForDateRange_RaiseOnEmpty(method, name, answer, start_date, end_date) ==
    IF name = "" \/ ~answer.ok \/ answer.body.data.result = <<>>
    THEN [raised |-> TRUE, value |-> None]
    ELSE [raised |-> FALSE, value |-> answer.body]

\* get_<method>_for_date_range(name, start_date, end_date, step, range) given
\* what session.get / raise_for_status / response.json() produced
GetForDateRange(method, name, answer, start_date, end_date) ==
    IF name = ""
    THEN [raised |-> TRUE, value |-> None]                    \* ValueError
    ELSE IF ~answer.ok
    THEN [raised |-> TRUE, value |-> None]                    \* Exception("Failed to query ...")
    ELSE IF answer.body.data.result # <<>>
    THEN [raised |-> FALSE, value |-> answer.body]
    ELSE [raised |-> FALSE, value |-> EmptyResult(method, name, start_date, end_date)]

\* the instants start, start + step, ... up to end, ascending
RECURSIVE StepInstants(_, _, _)
StepInstants(from, to, step) ==
    IF from > to THEN <<>> ELSE <<from>> \o StepInstants(from + step, to, step)

\* the samples the backend holds at the step instants of a range query
SamplesAt(instants, have) ==
    LET kept == {i \in DOMAIN instants : instants[i] \in have}
        RECURSIVE Pick(_)
        Pick(i) == IF i > Len(instants) THEN <<>>
                   ELSE IF i \in kept THEN <<<<instants[i], "1">>>> \o Pick(i + 1)
                   ELSE Pick(i + 1)
    IN Pick(1)

\* the JSON body of a successful query_range answer of the metrics backend
BackendBody(st, method, start_date, end_date, step) ==
    LET samples == IF method \in st.absent THEN <<>>
                   ELSE SamplesAt(StepInstants(Unfmt(start_date), Unfmt(end_date), step), st.have)
    IN [status |-> "success",
        data |-> [resultType |-> "matrix",
                  result |-> IF samples = <<>> THEN <<>>
                             ELSE <<[metric |-> <<>>, values |-> samples]>>]]

\* rows in the order the loops of display_metric_usage_date_range_results
\* build them; a row is <<label, timestamp, metric name, value>>
RECURSIVE SeriesRows(_, _, _)
SeriesRows(values, label, metric_name) ==
    IF values = <<>> THEN <<>>
    ELSE <<[label |-> label, timestamp |-> Fmt(values[1][1]),
            metric_name |-> metric_name, value |-> values[1][2]]>>
         \o SeriesRows(Tail(values), label, metric_name)

RECURSIVE ResultRows(_, _, _)
ResultRows(data, label, metric_name) ==
    IF data = <<>> THEN <<>>
    ELSE SeriesRows(data[1].values, label, metric_name)
         \o ResultRows(Tail(data), label, metric_name)

\* the empty time_range_label
NoLabel == <<>>

\* the "Time Range" column is there only when several ranges are shown
RECURSIVE AllRows(_, _, _)
\* a loop that ends at the first result whose status is not 'success'
AllRows_StopAtFailure(results_data, k, metric_name) ==
    IF k > Len(results_data) \/ results_data[k][1].status # "success" THEN <<>>
    ELSE ResultRows(results_data[k][1].data.result,
                    IF Len(results_data) > 1 THEN Some(results_data[k][2]) ELSE None,
                    metric_name)
         \o AllRows(results_data, k + 1, metric_name)

\* the rows collected from results k, k+1, ... of results_data
AllRows(results_data, k, metric_name) ==
    IF k > Len(results_data) THEN <<>>
    ELSE LET result == results_data[k][1]
             label == IF Len(results_data) > 1
                      THEN Some(IF results_data[k][2] # NoLabel THEN results_data[k][2]
                                ELSE <<"Range", k>>)
                      ELSE None
         IN (IF result.status # "success" THEN <<>>
             ELSE ResultRows(result.data.result, label, metric_name))
            \o AllRows(results_data, k + 1, metric_name)

FailedQueries(results_data) ==
    Cardinality({k \in DOMAIN results_data : results_data[k][1].status # "success"})

\* the formatted timestamps compare as text: day first, then hour
TimestampBefore(a, b) == a.day < b.day \/ (a.day = b.day /\ a.hour < b.hour)

\* all_rows.sort(key=timestamp column): stable
RECURSIVE InsertRow(_, _)
InsertRow(s, row) ==
    IF s = <<>> THEN <<row>>
    ELSE IF TimestampBefore(row.timestamp, s[1].timestamp) THEN <<row>> \o s
    ELSE <<s[1]>> \o InsertRow(Tail(s), row)

\* the rows left in the order they were collected
SortRows_Unsorted(rows) == rows

RECURSIVE SortRows(_)
SortRows(rows) ==
    IF rows = <<>> THEN <<>>
    ELSE InsertRow(SortRows(SubSeq(rows, 1, Len(rows) - 1)), rows[Len(rows)])

\* display_metric_usage_date_range_results: what it prints
DisplayDateRange(results_data, metric_name) ==
    LET all_rows == AllRows(results_data, 1, metric_name)
        failed_queries == FailedQueries(results_data)
        failed_line == IF failed_queries > 0
                       THEN <<Line("out of queries failed", <<failed_queries, Len(results_data)>>)>>
                       ELSE <<>>
    IN IF all_rows = <<>>
       THEN [kind |-> "no_data",
             lines |-> <<Line("No metric usage data found for the specified time ranges", <<>>),
                         Line("This may indicate the metric doesn't exist or has no data for these periods", <<>>)>>
                       \o failed_line,
             rows |-> <<>>]
       ELSE [kind |-> "table",
             lines |-> <<Line("Found data points across time range(s)",
                              <<Len(all_rows), Len(results_data)>>)>>
                       \o failed_line,
             rows |-> SortRows(all_rows)]

\* display_hourly_table_results: [ret, report]
DisplayHourlyTable(results_data, metric_name) ==
    IF results_data.status = "success" /\ results_data.data.result # <<>>
    THEN [ret |-> TRUE, report |-> DisplayDateRange(<<<<results_data, NoLabel>>>>, metric_name)]
    ELSE [ret |-> FALSE,
          report |-> [kind |-> "hourly_failed",
                      lines |-> <<Line("Failed to retrieve hourly data for", <<>>),
                                  IF "error_info" \in DOMAIN results_data
                                  THEN Line("Error:", results_data.error_info.message)
                                  ELSE Line("Status:", <<results_data.status>>)>>,
                      rows |-> <<>>]]

\* parameters export_hourly_graph declares, and the keywords
\* show_hourly_analysis passes to it
ExportHourlyGraphParams ==
    {"results_data", "metric_name", "start_time", "end_time", "output_dir", "metric_type", "prefix"}
ExportHourlyGraphKeywords == {"metric_type", "prefix", "day_labels"}

\* the methods class PrometheusClient defines
ClientMethods ==
    {"check_connection", "run_custom_query",
     "get_bucket_usage_for_date_range", "get_cpu_usage_for_date_range",
     "get_memory_usage_for_date_range", "get_network_receive_for_date_range",
     "get_network_transmit_for_date_range",
     "format_bytes", "format_cpu_cores", "format_metric_value",
     "_get_metric_unit_label", "display_metric_usage_date_range_results",
     "create_hourly_usage_graph", "display_hourly_table_results", "export_hourly_graph"}

\* ========================================================================
\* main.py
\* ========================================================================

\* --date values of the checked runs; strptime(args.date, "%d/%m/%Y %H:%M:%S")
DateArgs == {"15/01/2024 00:00:00", "15/01/2024 14:00:00", "2024-01-15 00:00:00"}
DateArgOk(s) == s \in {"15/01/2024 00:00:00", "15/01/2024 14:00:00"}
ParseDateArg(s) ==
    CASE s = "15/01/2024 00:00:00" -> 336
      [] s = "15/01/2024 14:00:00" -> 350

\* the metrics of the two profiles, in the order the analysis queries them:
\* <<method, bucket or namespace, display name>>
HubMetrics ==
    << <<"bucket_usage", "observability", "observability-bucket-size">>,
       <<"cpu_usage", "open-cluster-management-observability", "observability-cpu-consumption">>,
       <<"memory_usage", "open-cluster-management-observability", "observability-memory-consumption">>,
       <<"network_receive", "open-cluster-management-observability", "observability-traffic-received">> >>
SpokeMetrics ==
    << <<"cpu_usage", "open-cluster-management-addon-observability", "observability-cpu-consumption">>,
       <<"memory_usage", "open-cluster-management-addon-observability", "observability-memory-consumption">>,
       <<"network_transmit", "open-cluster-management-addon-observability", "observability-traffic-sent">> >>
ProfileMetrics(spoke) == IF spoke THEN SpokeMetrics ELSE HubMetrics

\* for i in range(days): the loop has run out
LoopDone_OneShort(i, days) == i >= days - 1
LoopDone(i, days) == i >= days

\* current_date + timedelta(hours=24)
NextDay_Drift(d) == d + 25
NextDay(d) == d + 24

\* time_range_label of iteration i
TimeRangeLabel(i, range_start) == <<"Data status at day", i + 1, range_start>>

\* the window of the hourly queries, unshifted
HourlyWindow_Unshifted(date_str, days) ==
    [start |-> Fmt(date_str), end |-> Fmt(date_str + 24 * days)]

\* hourly_start_time and hourly_end_time
HourlyWindow(date_str, days) ==
    [start |-> Fmt(date_str - 24), end |-> Fmt(date_str + 24 * (days - 1))]

\* labels_to_use
LabelsToUse(day_labels) ==
    IF day_labels # None /\ day_labels # <<>> THEN day_labels
    ELSE <<"", "extra-metrics", "new-alerts">>

\* day label lists of the checked command lines
LabelLists == {[k \in 1..n |-> <<"label", k>>] : n \in 1..MaxDays}

\* what the backend may hold for a run starting at t0 over n days: at most
\* one series it lacks altogether, and the day boundaries at which the others
\* have a sample
Stores(spoke, t0, n) ==
    LET methods == {ProfileMetrics(spoke)[k][1] : k \in DOMAIN ProfileMetrics(spoke)}
        boundaries == {t0 + 24 * k : k \in (-1)..(n - 1)}
    IN {[absent |-> a, have |-> h] :
            a \in {{}} \cup {{m} : m \in methods}, h \in SUBSET boundaries}

\* the command line passes the checks of main()
ArgsValid(date, days, day_labels) ==
    /\ DateArgOk(date)
    /\ days > 0
    /\ day_labels = None \/ Len(day_labels) = days

InitRun ==
    /\ CsvIdle
    /\ \E date \in DateArgs, days \in (-1)..MaxDays, spoke \in BOOLEAN,
          day_labels \in {None} \cup LabelLists :
          /\ args = [date |-> date, days |-> days, spoke |-> spoke, day_labels |-> day_labels]
          /\ store \in IF ArgsValid(date, days, day_labels)
                       THEN Stores(spoke, ParseDateArg(date), days)
                       ELSE {NoStore}
    /\ pc = "main"
    /\ exit_code = None
    /\ client = FALSE
    /\ frame = NoFrame
    /\ requests = <<>>
    /\ reports = <<>>
    /\ failure = "none"
    /\ ToolIdle

\* a label check that lets every list through
LabelsMismatch_Ignored(day_labels, days) == FALSE

\* args.day_labels is given and its length is not args.days
LabelsMismatch(day_labels, days) ==
    day_labels # None /\ Len(day_labels) # days

\* main(): argument checks up to the creation of the client (lines 572-596)
MainValidate ==
    /\ pc = "main"
    /\ IF ~DateArgOk(args.date)
       THEN \* ValueError handler: message printed, main returns
            /\ pc' = "exit" /\ exit_code' = 0 /\ client' = FALSE
       ELSE IF args.days <= 0
       THEN /\ pc' = "exit" /\ exit_code' = 1 /\ client' = FALSE
       ELSE IF LabelsMismatch(args.day_labels, args.days)
       THEN /\ pc' = "exit" /\ exit_code' = 1 /\ client' = FALSE
       ELSE /\ pc' = "connect" /\ exit_code' = None /\ client' = TRUE
    /\ UNCHANGED <<args, store, frame, requests, reports, failure>>
    /\ UNCHANGED csv_vars
    /\ UNCHANGED tool_vars

\* a main that goes on to the test query whatever check_connection returned
CheckConnection_Unchecked ==
    /\ pc = "connect"
    /\ \E ok \in BOOLEAN :
          /\ requests' = Append(requests, [kind |-> "check_connection", ok |-> ok])
          /\ pc' = "test_query" /\ exit_code' = None
    /\ UNCHANGED <<args, store, client, frame, reports, failure>>
    /\ UNCHANGED csv_vars
    /\ UNCHANGED tool_vars

\* client.check_connection()
CheckConnection ==
    /\ pc = "connect"
    /\ \E ok \in BOOLEAN :
          /\ requests' = Append(requests, [kind |-> "check_connection", ok |-> ok])
          /\ IF ok THEN pc' = "test_query" /\ exit_code' = None
                   ELSE pc' = "exit" /\ exit_code' = 1
    /\ UNCHANGED <<args, store, client, frame, reports, failure>>
    /\ UNCHANGED csv_vars
    /\ UNCHANGED tool_vars

\* the locals of the analysis function at its entry
EnterAnalysis ==
    [NoFrame EXCEPT !.date_str = ParseDateArg(args.date),
                    !.days = args.days,
                    !.day_labels = args.day_labels,
                    !.i = 0,
                    !.cursor = 1,
                    !.current_date = ParseDateArg(args.date),
                    !.results_with_labels =
                        [k \in DOMAIN ProfileMetrics(args.spoke) |-> <<>>]]

\* client.run_custom_query("up"), then the call of the analysis function
TestQuery ==
    /\ pc = "test_query"
    /\ \E ok \in BOOLEAN :
          /\ requests' = Append(requests, [kind |-> "query", ok |-> ok])
          /\ IF ok THEN /\ pc' = "daily" /\ exit_code' = None
                        /\ frame' = EnterAnalysis
                   ELSE /\ pc' = "exit" /\ exit_code' = 1
                        /\ frame' = frame
    /\ UNCHANGED <<args, store, client, reports, failure>>
    /\ UNCHANGED csv_vars
    /\ UNCHANGED tool_vars

\* a range request as the log keeps it
RangeRequest(method, name, start_date, end_date, step, range, answer, r) ==
    [kind |-> "query_range", method |-> method, name |-> name,
     start |-> start_date, end |-> end_date, step |-> step, range |-> range,
     answer |-> answer, raised |-> r.raised, value |-> r.value]

\* what session.get / raise_for_status / json() may produce for a request
Answers(method, start_date, end_date, step) ==
    {[ok |-> FALSE, body |-> None],
     [ok |-> TRUE, body |-> BackendBody(store, method, start_date, end_date, step)]}

\* one get_*_for_date_range call of the daily loop (metric number m of the
\* iteration); after the last metric the results are appended with the label
\* and current_date moves to the next day
DailyQuery(m) ==
    LET metrics == ProfileMetrics(args.spoke)
        range_start == Fmt(frame.current_date)
    IN
    /\ pc = "daily"
    /\ ~LoopDone(frame.i, frame.days)
    /\ frame.cursor = m
    /\ \E answer \in Answers(metrics[m][1], range_start, range_start, 24) :
       \E r \in {GetForDateRange(metrics[m][1], metrics[m][2], answer, range_start, range_start)} :
          /\ requests' = Append(requests,
                RangeRequest(metrics[m][1], metrics[m][2], range_start, range_start, 24, 24, answer, r))
          /\ IF r.raised
             THEN /\ pc' = "returned"
                  /\ failure' = "backend"
                  /\ frame' = frame
             ELSE /\ pc' = pc
                  /\ failure' = failure
                  /\ IF m < Len(metrics)
                     THEN frame' = [frame EXCEPT !.iteration = Append(@, r.value),
                                                 !.cursor = m + 1]
                     ELSE LET results == Append(frame.iteration, r.value)
                              label == TimeRangeLabel(frame.i, range_start)
                          IN frame' = [frame EXCEPT
                                !.results_with_labels =
                                    [k \in DOMAIN @ |-> Append(@[k], <<results[k], label>>)],
                                !.iteration = <<>>,
                                !.cursor = 1,
                                !.i = @ + 1,
                                !.current_date = NextDay(@)]
    /\ UNCHANGED <<args, store, exit_code, client, reports>>
    /\ UNCHANGED csv_vars
    /\ UNCHANGED tool_vars

\* after the loop: the daily tables of every metric, then the hourly window
DailyDisplay ==
    LET metrics == ProfileMetrics(args.spoke)
        w == HourlyWindow(frame.date_str, frame.days)
    IN
    /\ pc = "daily"
    /\ LoopDone(frame.i, frame.days)
    /\ reports' = reports \o
            [k \in DOMAIN metrics |->
                [stage |-> "daily", metric |-> metrics[k][1],
                 shown |-> DisplayDateRange(frame.results_with_labels[k], metrics[k][3]),
                 results |-> [j \in DOMAIN frame.results_with_labels[k] |->
                                frame.results_with_labels[k][j][1]]]]
    /\ frame' = [frame EXCEPT !.hourly_start_time = w.start,
                              !.hourly_end_time = w.end,
                              !.cursor = 1]
    /\ pc' = "hourly_query"
    /\ UNCHANGED <<args, store, exit_code, client, requests, failure>>
    /\ UNCHANGED csv_vars
    /\ UNCHANGED tool_vars

\* one get_*_for_date_range call over the hourly window (metric number m)
HourlyQuery(m) ==
    LET metrics == ProfileMetrics(args.spoke)
    IN
    /\ pc = "hourly_query"
    /\ frame.cursor = m
    /\ \E answer \in Answers(metrics[m][1], frame.hourly_start_time, frame.hourly_end_time, 1) :
       \E r \in {GetForDateRange(metrics[m][1], metrics[m][2], answer,
                                 frame.hourly_start_time, frame.hourly_end_time)} :
          /\ requests' = Append(requests,
                RangeRequest(metrics[m][1], metrics[m][2],
                             frame.hourly_start_time, frame.hourly_end_time, 1, 1, answer, r))
          /\ IF r.raised
             THEN /\ pc' = "returned"
                  /\ failure' = "backend"
                  /\ frame' = frame
             ELSE /\ failure' = failure
                  /\ frame' = [frame EXCEPT !.hourly = Append(@, r.value),
                                            !.cursor = IF m < Len(metrics) THEN m + 1 ELSE 1]
                  /\ pc' = IF m < Len(metrics) THEN pc ELSE "hourly_show"
    /\ UNCHANGED <<args, store, exit_code, client, reports>>
    /\ UNCHANGED csv_vars
    /\ UNCHANGED tool_vars

\* the calls on the client that always follow the table
ShowHourlyCalls_AlwaysExport(table_success) ==
    IF ~(ExportHourlyGraphKeywords \subseteq ExportHourlyGraphParams)
    THEN [calls |-> <<"display_hourly_table_results", "export_hourly_graph">>,
          raised |-> "TypeError"]
    ELSE IF "export_hourly_csv" \notin ClientMethods
    THEN [calls |-> <<"display_hourly_table_results", "export_hourly_graph", "export_hourly_csv">>,
          raised |-> "AttributeError"]
    ELSE [calls |-> <<"display_hourly_table_results", "export_hourly_graph", "export_hourly_csv">>,
          raised |-> "none"]

\* show_hourly_analysis: the calls it makes on the client once the table
\* returned table_success, in order, and the exception that ends them
ShowHourlyCalls(table_success) ==
    IF ~table_success
    THEN [calls |-> <<"display_hourly_table_results">>, raised |-> "none"]
    ELSE IF ~(ExportHourlyGraphKeywords \subseteq ExportHourlyGraphParams)
    THEN \* TypeError: unexpected keyword argument 'day_labels'
         [calls |-> <<"display_hourly_table_results", "export_hourly_graph">>,
          raised |-> "TypeError"]
    ELSE IF "export_hourly_csv" \notin ClientMethods
    THEN \* AttributeError: no such method
         [calls |-> <<"display_hourly_table_results", "export_hourly_graph", "export_hourly_csv">>,
          raised |-> "AttributeError"]
    ELSE [calls |-> <<"display_hourly_table_results", "export_hourly_graph", "export_hourly_csv">>,
          raised |-> "none"]

\* show_hourly_analysis for metric number m, called with labels_to_use: the
\* table, then, when the table was shown, the exports; an exception of a
\* call is caught by the analysis function, which returns
ShowHourly(m) ==
    /\ pc = "hourly_show"
    /\ frame.cursor = m
    /\ \E table \in {DisplayHourlyTable(frame.hourly[m], ProfileMetrics(args.spoke)[m][3])} :
       \E c \in {ShowHourlyCalls(table.ret)} :
          /\ reports' = Append(reports,
                [stage |-> "hourly", metric |-> ProfileMetrics(args.spoke)[m][1],
                 shown |-> table.report, results |-> <<frame.hourly[m]>>,
                 day_labels |-> LabelsToUse(frame.day_labels),
                 calls |-> c.calls, raised |-> c.raised])
          /\ IF c.raised # "none"
             THEN /\ pc' = "returned"
                  /\ failure' = c.raised
                  /\ frame' = frame
             ELSE /\ failure' = failure
                  /\ frame' = [frame EXCEPT !.cursor = m + 1]
                  /\ pc' = IF m < Len(ProfileMetrics(args.spoke)) THEN pc ELSE "returned"
    /\ UNCHANGED <<args, store, exit_code, client, requests>>
    /\ UNCHANGED csv_vars
    /\ UNCHANGED tool_vars

\* back in main: "analysis completed" is printed and main returns
MainFinish ==
    /\ pc = "returned"
    /\ pc' = "exit"
    /\ exit_code' = 0
    /\ UNCHANGED <<args, store, client, frame, requests, reports, failure>>
    /\ UNCHANGED csv_vars
    /\ UNCHANGED tool_vars

NextRun ==
    \/ MainValidate
    \/ CheckConnection
    \/ TestQuery
    \/ \E m \in 1..4 : DailyQuery(m)
    \/ DailyDisplay
    \/ \E m \in 1..4 : HourlyQuery(m)
    \/ \E m \in 1..4 : ShowHourly(m)
    \/ MainFinish

SpecRun == InitRun /\ [][NextRun]_vars


\* ========================================================================
\* csv_combiner.py: generate_graph and main
\* ========================================================================

\* exact quotients of integers, in lowest terms with a positive denominator
RECURSIVE Gcd(_, _)
Gcd(a, b) == IF b = 0 THEN a ELSE Gcd(b, a % b)
Abs(x) == IF x < 0 THEN 0 - x ELSE x
Rat(n, d) ==
    LET g == Gcd(Abs(n), Abs(d))
        sgn == IF d < 0 THEN 0 - 1 ELSE 1
    IN [num |-> sgn * (n \div g), den |-> sgn * (d \div g)]

RECURSIVE Sum(_)
Sum(values) == IF values = <<>> THEN 0 ELSE values[1] + Sum(Tail(values))
Min(values) == CHOOSE v \in Range(values) : \A w \in Range(values) : v <= w
Max(values) == CHOOSE v \in Range(values) : \A w \in Range(values) : v >= w

\* a growth rate computed without looking at the first value
GrowthRate_Unguarded(values) ==
    [num |-> (values[Len(values)] - values[1]) * 100, den |-> values[1]]

\* growth_rate = ((values[-1] - values[0]) / values[0]) * 100 if values[0] != 0 else 0
GrowthRate(values) ==
    IF values[1] # 0
    THEN Rat((values[Len(values)] - values[1]) * 100, values[1])
    ELSE Rat(0, 1)

\* the statistics text box
Statistics(values) ==
    [avg |-> Rat(Sum(values), Len(values)),
     min |-> Min(values),
     max |-> Max(values),
     growth |-> GrowthRate(values),
     points |-> Len(values)]

\* Python truthiness of an optional list
HasLabels(day_labels) == day_labels # None /\ day_labels # <<>>

\* the while loop adding a boundary every 24 hours
RECURSIVE DayBoundaries(_, _, _, _)
DayBoundaries(current, day_count, n_labels, last_ts) ==
    IF day_count < n_labels /\ current <= last_ts
    THEN <<[pos |-> current, day_idx |-> day_count]>>
         \o DayBoundaries(current + 24, day_count + 1, n_labels, last_ts)
    ELSE <<>>

\* a label text that is always the fallback
LabelText_Fallback(day_labels, day_idx) == <<"Day", day_idx>>

\* label_text of the separator number day_idx
LabelText(day_labels, day_idx) ==
    IF day_idx < Len(day_labels) THEN day_labels[day_idx + 1] ELSE <<"Day", day_idx>>

\* generate_graph without its test for an empty series: timestamps[0] or the
\* mean raises
GenerateGraph_Unguarded(obj, timestamps, values, day_labels, start_date) ==
    IF timestamps = <<>> \/ values = <<>>
    THEN [drawn |-> FALSE,
          raised |-> IF start_date # None /\ HasLabels(day_labels)
                     THEN "ZeroDivisionError" ELSE "IndexError"]
    ELSE
    LET x_start == IF start_date # None THEN start_date[1] ELSE timestamps[1]
        x_end == IF start_date # None /\ HasLabels(day_labels)
                 THEN start_date[1] + 24 * Len(day_labels)
                 ELSE timestamps[Len(timestamps)]
        day_positions ==
            IF HasLabels(day_labels)
            THEN <<[pos |-> x_start, day_idx |-> 0]>>
                 \o DayBoundaries(x_start + 24, 1, Len(day_labels), x_end)
            ELSE <<>>
    IN [drawn |-> TRUE,
        kind |-> "combined",
        x_start |-> x_start,
        x_end |-> x_end,
        xlim |-> <<x_start - 3, x_end>>,
        points |-> [i \in DOMAIN timestamps |-> <<timestamps[i], values[i]>>],
        title |-> <<"Combined Time Series -", obj.metric_name>>,
        separators |-> [k \in DOMAIN day_positions |->
                           [pos |-> day_positions[k].pos,
                            text |-> LabelText(day_labels, day_positions[k].day_idx)]],
        stats |-> Statistics(values)]

\* generate_graph(timestamps, values, output_path, title, day_labels, start_date):
\* the figure saved, or that nothing was drawn
GenerateGraph(obj, timestamps, values, day_labels, start_date) ==
    IF timestamps = <<>> \/ values = <<>>
    THEN NoGraph
    ELSE
    LET x_start == IF start_date # None THEN start_date[1] ELSE timestamps[1]
        x_end == IF start_date # None /\ HasLabels(day_labels)
                 THEN start_date[1] + 24 * Len(day_labels)
                 ELSE timestamps[Len(timestamps)]
        day_positions ==
            IF HasLabels(day_labels)
            THEN <<[pos |-> x_start, day_idx |-> 0]>>
                 \o DayBoundaries(x_start + 24, 1, Len(day_labels), x_end)
            ELSE <<>>
    IN [drawn |-> TRUE,
        kind |-> "combined",
        x_start |-> x_start,
        x_end |-> x_end,
        xlim |-> <<x_start - 3, x_end>>,
        points |-> [i \in DOMAIN timestamps |-> <<timestamps[i], values[i]>>],
        title |-> <<"Combined Time Series -", obj.metric_name>>,
        separators |-> [k \in DOMAIN day_positions |->
                           [pos |-> day_positions[k].pos,
                            text |-> LabelText(day_labels, day_positions[k].day_idx)]],
        stats |-> Statistics(values)]

\* main() of csv_combiner.py, run once by the process, from the creation of
\* the combiner on: combine the files, draw the graph when there is data,
\* return 0 or 1
CsvMain(csv_files, day_labels, start_date) ==
    /\ cli.fn = "main"
    /\ cli.ret = None
    /\ \E r \in {CombineFiles(NewCombiner, [i \in DOMAIN csv_files |-> disk[csv_files[i]]])} :
       /\ prior' = NewCombiner
       /\ combiner' = r.obj
       /\ filepaths' = csv_files
       /\ combined' = [x \in DOMAIN r \ {"obj"} |-> r[x]]
       /\ called' = TRUE
       /\ graph' = IF r.timestamps # <<>> /\ r.values # <<>>
                   THEN GenerateGraph(r.obj, r.timestamps, r.values, day_labels, start_date)
                   ELSE NoGraph
       /\ cli' = [fn |-> "main", csv_files |-> csv_files, day_labels |-> day_labels,
                  start_date |-> start_date,
                  ret |-> IF r.timestamps # <<>> /\ r.values # <<>> THEN Some(0) ELSE Some(1)]
       /\ UNCHANGED disk
       /\ UNCHANGED run_vars

\* files of at most n lines over a row set
FilesOver(header, rowset, n) == {CsvFile(header, rows) : rows \in SeqsUpTo(rowset, n)}

ToolPaths == {"a.csv", "b.csv", "missing.csv"}
ToolDisk(a, b) ==
    [p \in ToolPaths |-> IF p = "a.csv" THEN a ELSE IF p = "b.csv" THEN b ELSE NoFile]

\* one file with two value columns, in either order in the header
PriorityRows == {<<TS0, "10", "20">>, <<TS0, "", "20">>, <<TS0, "10", "">>}
PriorityDisks ==
    UNION {{ToolDisk(f, NoFile) :
                f \in FilesOver(<<"timestamp", pair[1], pair[2]>>, PriorityRows, 1)} :
           pair \in {p \in Range(ValueColumns) \X Range(ValueColumns) : p[1] # p[2]}}

\* two files, with or without a metric_name column, of MaxColRows lines in all
NameHeader == <<"timestamp", "value", "metric_name">>
NameRows == {<<TS0, "10", "cpu">>, <<TS1, "20", "mem">>, <<TS0, "10", "">>, <<TS1, "30">>}
NameDisks ==
    UNION {{ToolDisk(CsvFile(h[1], SubSeq(s, 1, k)), CsvFile(h[2], SubSeq(s, k + 1, Len(s)))) :
                k \in 0..Len(s),
                h \in {<<NameHeader, NameHeader>>, <<BasicHeader, NameHeader>>,
                       <<NameHeader, BasicHeader>>}} :
           s \in SeqsUpTo(NameRows, MaxColRows)}

\* one file whose series starts at zero or spans several days
GraphRows == {<<TS0, "0">>, <<TS1, "10">>, <<TS2, "20">>, <<TS3, "10">>}
GraphDisks == {ToolDisk(f, NoFile) : f \in FilesOver(BasicHeader, GraphRows, MaxColRows)}

ToolDisks == PriorityDisks \cup NameDisks \cup GraphDisks

\* the file lists, day labels and start dates of the checked command lines
ToolPathLists ==
    PathLists \cup {<<"missing.csv">>, <<"a.csv", "missing.csv", "b.csv">>,
                    <<"b.csv", "missing.csv", "a.csv">>}
ToolLabels == {None} \cup LabelLists
ToolStartDates == {None, Some(0), Some(48)}

InitCsvTool ==
    /\ disk \in ToolDisks
    /\ combiner = NewCombiner
    /\ filepaths = <<>>
    /\ combined = CombineFiles(NewCombiner, <<>>)
    /\ prior = NewCombiner
    /\ called = FALSE
    /\ RunIdle
    /\ cli = NoCli
    /\ graph = NoGraph

NextCsvTool ==
    \E csv_files \in ToolPathLists, day_labels \in ToolLabels, start_date \in ToolStartDates :
        CsvMain(csv_files, day_labels, start_date)

SpecCsvTool == InitCsvTool /\ [][NextCsvTool]_vars


\* ========================================================================
\* prometheus_client.py: create_hourly_usage_graph
\* ========================================================================

\* arithmetic on exact quotients
RSub(a, b) ==
    LET g == Gcd(a.den, b.den)
    IN Rat(a.num * (b.den \div g) - b.num * (a.den \div g), (a.den \div g) * b.den)
RAdd(a, b) ==
    LET g == Gcd(a.den, b.den)
    IN Rat(a.num * (b.den \div g) + b.num * (a.den \div g), (a.den \div g) * b.den)
RMul(a, b) ==
    LET g1 == Gcd(Abs(a.num), b.den)
        g2 == Gcd(Abs(b.num), a.den)
    IN IF a.num = 0 \/ b.num = 0 THEN Rat(0, 1)
       ELSE Rat((a.num \div g1) * (b.num \div g2), (a.den \div g2) * (b.den \div g1))
RDiv(a, b) == RMul(a, Rat(b.den, b.num))
RLeq(a, b) == a.num * b.den <= b.num * a.den

RECURSIVE RSum(_)
RSum(values) == IF values = <<>> THEN Rat(0, 1) ELSE RAdd(values[1], RSum(Tail(values)))
RMin(values) == CHOOSE v \in Range(values) : \A w \in Range(values) : RLeq(v, w)
RMax(values) == CHOOSE v \in Range(values) : \A w \in Range(values) : RLeq(w, v)

\* display_value for a raw value of the metric type
DisplayValue(raw_value, metric_type) ==
    CASE metric_type \in {"bytes", "memory"} -> Rat(raw_value, 1073741824)
      [] metric_type = "seconds" -> Rat(raw_value * 100, 1)
      [] metric_type = "bytes_per_second" -> Rat(raw_value, 1048576)
      [] OTHER -> Rat(raw_value, 1)

\* the samples of all series of a result, in the order they are visited
RECURSIVE AllSamples(_)
AllSamples(result) ==
    IF result = <<>> THEN <<>> ELSE result[1].values \o AllSamples(Tail(result))

\* the two lists the extraction loop fills: the timestamp is appended before
\* the value is converted, the value only when float() accepts it
RECURSIVE ExtractedTimestamps(_)
ExtractedTimestamps(samples) ==
    IF samples = <<>> THEN <<>>
    ELSE <<samples[1][1]>> \o ExtractedTimestamps(Tail(samples))
RECURSIVE ExtractedValues(_, _)
ExtractedValues(samples, metric_type) ==
    IF samples = <<>> THEN <<>>
    ELSE (IF FloatOk(samples[1][2])
          THEN <<DisplayValue(Float(samples[1][2]), metric_type)>> ELSE <<>>)
         \o ExtractedValues(Tail(samples), metric_type)

\* list(zip(timestamps, values))
Zip(timestamps, values) ==
    [i \in 1..(IF Len(timestamps) <= Len(values) THEN Len(timestamps) ELSE Len(values))
        |-> <<timestamps[i], values[i]>>]

\* a growth rate computed without looking at the first value
HourlyGrowthRate_Unguarded(values) ==
    [num |-> (values[Len(values)].num * values[1].den - values[1].num * values[Len(values)].den) * 100,
     den |-> values[1].num * values[Len(values)].den]

\* growth_rate = ((values[-1] - values[0]) / values[0]) * 100 if values[0] != 0 else 0
HourlyGrowthRate(values) ==
    IF values[1].num # 0
    THEN RMul(RDiv(RSub(values[Len(values)], values[1]), values[1]), Rat(100, 1))
    ELSE Rat(0, 1)

\* separators every 24h after start_time and before end_time
RECURSIVE HourlyBoundaries(_, _)
\* a loop that also draws at end_time
HourlyBoundaries_Inclusive(current, end_dt) ==
    IF current <= end_dt THEN <<current>> \o HourlyBoundaries(current + 24, end_dt) ELSE <<>>

\* while current < end_dt
HourlyBoundaries(current, end_dt) ==
    IF current < end_dt THEN <<current>> \o HourlyBoundaries(current + 24, end_dt) ELSE <<>>

\* the fallback when the two times cannot be parsed: midnights after the
\* first timestamp and before the last
FallbackBoundaries(first_ts, last_ts) ==
    LET midnight == (first_ts \div 24) * 24
    IN HourlyBoundaries(IF midnight <= first_ts THEN midnight + 24 ELSE midnight, last_ts)

\* create_hourly_usage_graph(results_data, metric_name, start_time, end_time,
\* output_dir, metric_type, prefix): the figure saved, or that none was
\* (return None); start_time and end_time are None when they cannot be parsed
CreateHourlyUsageGraph(results_data, metric_type, start_time, end_time) ==
    LET samples == IF results_data.status = "success" /\ results_data.data.result # <<>>
                   THEN AllSamples(results_data.data.result) ELSE <<>>
        timestamps == ExtractedTimestamps(samples)
        values == ExtractedValues(samples, metric_type)
    IN IF timestamps = <<>> \/ values = <<>>
       THEN NoGraph
       ELSE LET combined_sorted == SortedItems(Zip(timestamps, values))
                sorted_values == [i \in DOMAIN combined_sorted |-> combined_sorted[i][2]]
            IN [drawn |-> TRUE,
                kind |-> "hourly",
                points |-> combined_sorted,
                title |-> <<"Hourly Usage Trend -", start_time, "to", end_time>>,
                separators |->
                    IF start_time # None /\ end_time # None
                    THEN HourlyBoundaries(Unfmt(start_time[1]) + 24, Unfmt(end_time[1]))
                    ELSE FallbackBoundaries(combined_sorted[1][1],
                                            combined_sorted[Len(combined_sorted)][1]),
                stats |-> [avg |-> RDiv(RSum(sorted_values), Rat(Len(sorted_values), 1)),
                           min |-> RMin(sorted_values),
                           max |-> RMax(sorted_values),
                           growth |-> HourlyGrowthRate(sorted_values),
                           points |-> Len(sorted_values)]]

\* ========================================================================
\* Direct calls of the graph and table methods
\* ========================================================================

\* series passed to generate_graph: points at ascending instants
GraphInstants == {0, 1, 24, 54}
GraphValues == {0, 10, 20}
RECURSIVE AscendingSeries(_)
AscendingSeries(n) ==
    IF n = 0 THEN {<<>>}
    ELSE LET shorter == AscendingSeries(n - 1)
         IN shorter \cup
            {Append(c[1], c[2]) :
                c \in {d \in {x \in shorter : Len(x) = n - 1} \X (GraphInstants \X GraphValues) :
                          d[1] = <<>> \/ d[1][Len(d[1])][1] < d[2][1]}}

GenerateGraphCalls ==
    {[fn |-> "generate_graph", done |-> FALSE, series |-> q,
      day_labels |-> l, start_date |-> d] :
        q \in AscendingSeries(MaxSamples), l \in ToolLabels, d \in ToolStartDates}

\* results passed to create_hourly_usage_graph: one series, or the same
\* samples spread over two, at instants in any order
SampleSet == {0, 1, 24} \X {"0", "10"}
Series(samples) == [metric |-> <<>>, values |-> samples]
Matrix(result) == [status |-> "success", data |-> [resultType |-> "matrix", result |-> result]]
HourlyResults ==
    {Matrix(<<>>)}
    \cup {Matrix(<<Series(q)>>) : q \in SeqsUpTo(SampleSet, MaxSamples)}
    \cup {Matrix(<<Series(<<q[1]>>), Series(Tail(q))>>) :
            q \in SeqsUpTo(SampleSet, MaxSamples) \ {<<>>}}
\* date_str of the runs whose hourly window the figure is drawn for
RunStart == Strptime(TS2)
HourlyGraphCalls ==
    {[fn |-> "create_hourly_usage_graph", done |-> FALSE, results_data |-> r,
      metric_type |-> m, start_time |-> w[1], end_time |-> w[2]] :
        r \in HourlyResults,
        m \in {"seconds", "bytes_per_second", "count"},
        w \in {<<Some(HourlyWindow(RunStart, n).start), Some(HourlyWindow(RunStart, n).end)>> :
                    n \in 1..MaxDays}
              \cup {<<None, None>>}}

\* results passed to display_metric_usage_date_range_results: one window or
\* two, each with its label and a series of at most MaxSamples samples
WindowLabels == {<<"Window", 1>>, <<"Window", 2>>}
WindowResults ==
    {Matrix(<<Series(q)>>) :
        q \in SeqsUpTo({0, 24} \X {"1"}, MaxSamples) \ {<<>>}}
\* a result whose status is not 'success', and all the results shown
FailedResult == [status |-> "error", errorType |-> "timeout", error |-> "query timed out"]
DisplayResults == WindowResults \cup {FailedResult, Matrix(<<>>)}
DisplayCalls ==
    {[fn |-> "display_metric_usage_date_range_results", done |-> FALSE,
      results_data |-> <<<<r, l>>>>] : r \in DisplayResults, l \in WindowLabels}
    \cup
    {[fn |-> "display_metric_usage_date_range_results", done |-> FALSE,
      results_data |-> <<<<r1, l[1]>>, <<r2, l[2]>>>>] :
        r1 \in DisplayResults, r2 \in DisplayResults,
        l \in {x \in WindowLabels \X WindowLabels : x[1] # x[2]}}

\* one call of one method, its arguments drawn when the state is set up
InitCalls ==
    /\ CsvIdle
    /\ RunIdle
    /\ graph = NoGraph
    /\ cli \in GenerateGraphCalls \cup HourlyGraphCalls \cup DisplayCalls \cup {NoCli}

CallGenerateGraph ==
    /\ cli.fn = "generate_graph"
    /\ ~cli.done
    /\ graph' = GenerateGraph(combiner,
                              [i \in DOMAIN cli.series |-> cli.series[i][1]],
                              [i \in DOMAIN cli.series |-> cli.series[i][2]],
                              cli.day_labels, cli.start_date)
    /\ cli' = [cli EXCEPT !.done = TRUE]
    /\ UNCHANGED csv_vars
    /\ UNCHANGED run_vars

CallCreateHourlyUsageGraph ==
    /\ cli.fn = "create_hourly_usage_graph"
    /\ ~cli.done
    /\ graph' = CreateHourlyUsageGraph(cli.results_data, cli.metric_type,
                                       cli.start_time, cli.end_time)
    /\ cli' = [cli EXCEPT !.done = TRUE]
    /\ UNCHANGED csv_vars
    /\ UNCHANGED run_vars

CallDisplayDateRange ==
    /\ cli.fn = "display_metric_usage_date_range_results"
    /\ ~cli.done
    /\ reports' = Append(reports,
            [stage |-> "call", metric |-> "metric",
             shown |-> DisplayDateRange(cli.results_data, "metric"),
             results |-> [j \in DOMAIN cli.results_data |-> cli.results_data[j][1]]])
    /\ cli' = [cli EXCEPT !.done = TRUE]
    /\ UNCHANGED graph
    /\ UNCHANGED csv_vars
    /\ UNCHANGED <<args, store, pc, exit_code, client, frame, requests, failure>>

\* main() of csv_combiner.py given files none of which can be opened
CallCsvMain ==
    \E csv_files \in PathLists \ {<<>>}, day_labels \in ToolLabels, start_date \in ToolStartDates :
        CsvMain(csv_files, day_labels, start_date)

NextCalls ==
    \/ CallGenerateGraph
    \/ CallCreateHourlyUsageGraph
    \/ CallDisplayDateRange
    \/ CallCsvMain

SpecCalls == InitCalls /\ [][NextCalls]_vars

\* ------------------------------------------------------------------------
\* Properties of combine_csv_files
\* ------------------------------------------------------------------------

\* the files the last call was given
FilesOf(paths) == [i \in DOMAIN paths |-> disk[paths[i]]]

\* the series a result carries
SeriesOf(r) == [timestamps |-> r.timestamps, values |-> r.values]

\* timestamps inserted by the last call, and the value of the last insertion at t
InsertedAt(log) == {log[i][1] : i \in DOMAIN log}
LastInserted(log, t) ==
    log[CHOOSE i \in DOMAIN log :
            /\ log[i][1] = t
            /\ \A j \in DOMAIN log : log[j][1] = t => j <= i][2]

\* value of the point at timestamp t of a returned series
ValueAt(series, t) ==
    series.values[CHOOSE i \in DOMAIN series.timestamps : series.timestamps[i] = t]

\* C1: after combine_csv_files the returned series holds exactly one point per
\* distinct timestamp inserted into the combiner (by this call or, on a reused
\* combiner, before it); the point of a timestamp this call inserted carries the
\* value of the last row inserted with it, rows in file order and files in
\* argument order; on a fresh combiner N insertions with K distinct timestamps
\* return exactly K points.
C1_OnePointPerTimestampLastWins ==
    called =>
        LET log == combined.log
            ts == combined.timestamps
        IN /\ Range(ts) = DictKeys(prior.combined_data) \cup InsertedAt(log)
           /\ Cardinality(Range(ts)) = Len(ts)
           /\ Len(combined.values) = Len(ts)
           /\ \A t \in Range(ts) :
                ValueAt(combined, t) =
                    IF t \in InsertedAt(log) THEN LastInserted(log, t)
                    ELSE DictLookup(prior.combined_data, t)
           /\ prior.combined_data = <<>> => Len(ts) = Cardinality(InsertedAt(log))

\* three insertions with two distinct timestamps on a fresh combiner: two points
C1_Witness ==
    /\ called
    /\ prior = NewCombiner
    /\ Len(combined.log) = 3
    /\ Cardinality(InsertedAt(combined.log)) = 2
    /\ Len(combined.timestamps) = 2

\* C2: combine_csv_files returns the timestamps in strictly ascending order,
\* the two returned lists have the same length, and values[i] is the value
\* stored in combined_data at timestamps[i].
C2_StrictlyAscendingAligned ==
    called =>
        /\ Len(combined.timestamps) = Len(combined.values)
        /\ \A i \in DOMAIN combined.timestamps : \A j \in DOMAIN combined.timestamps :
                i < j => combined.timestamps[i] < combined.timestamps[j]
        /\ \A i \in DOMAIN combined.timestamps :
                /\ combined.timestamps[i] \in DictKeys(combiner.combined_data)
                /\ combined.values[i] =
                        DictLookup(combiner.combined_data, combined.timestamps[i])

\* the later timestamp was inserted first: the store is out of order
C2_Witness ==
    /\ called
    /\ Len(combiner.combined_data) = 2
    /\ combiner.combined_data[1][1] > combiner.combined_data[2][1]
    /\ combined.timestamps = <<0, 1>>

\* number of insertions of the last call that hit a timestamp already present
Overwrites(pr, log) ==
    Cardinality({i \in DOMAIN log :
        \/ log[i][1] \in DictKeys(pr)
        \/ \E j \in 1..(i - 1) : log[j][1] = log[i][1]})

\* C3: on a freshly created combiner the reported duplicates-removed figure
\* (total rows read minus unique points) is the number of insertions that
\* overwrote a timestamp already present.
C3_DuplicatesRemovedCountsOverwrites ==
    (called /\ prior = NewCombiner) =>
        combined.duplicates_removed = Overwrites(prior.combined_data, combined.log)

\* the series of the insertions log applied, in the given order, to the store d
RECURSIVE ApplyInsertions(_, _)
ApplyInsertions(d, log) ==
    IF log = <<>> THEN d
    ELSE ApplyInsertions(DictSet(d, log[1][1], log[1][2]), Tail(log))

Materialize(d) ==
    LET sorted_data == SortedItems(d)
    IN [timestamps |-> [i \in DOMAIN sorted_data |-> sorted_data[i][1]],
        values |-> [i \in DOMAIN sorted_data |-> sorted_data[i][2]]]

\* timestamps the last call inserted with two different values
Contested(log) ==
    {t \in InsertedAt(log) :
        \E i \in DOMAIN log : \E j \in DOMAIN log :
            log[i][1] = t /\ log[j][1] = t /\ log[i][2] # log[j][2]}

\* two series agree on their timestamps and on every value outside the set skip
AgreeOutside(s1, s2, skip) ==
    /\ s1.timestamps = s2.timestamps
    /\ \A i \in DOMAIN s1.timestamps :
            s1.timestamps[i] \notin skip => s1.values[i] = s2.values[i]

\* C4 as stated: the returned series is the same for every order in which the
\* files of the list are ingested.
C4_SameSeriesForEveryOrder ==
    called =>
        \A fl \in Orderings(FilesOf(filepaths)) :
            SeriesOf(CombineFiles(prior, fl)) = SeriesOf(combined)

\* C4 amended: for every order of the files and every order of the insertions
\* the returned timestamps are the same, and so is the value at every
\* timestamp whose inserted rows all carry one value (at a timestamp inserted
\* with different values the last ingested row decides); combining the same
\* file list again on the same combiner returns the same series.
C4_OrderIndependentUpToContested ==
    called =>
        /\ \A fl \in Orderings(FilesOf(filepaths)) :
                AgreeOutside(SeriesOf(CombineFiles(prior, fl)), SeriesOf(combined),
                             Contested(combined.log))
        /\ \A l \in Orderings(combined.log) :
                AgreeOutside(Materialize(ApplyInsertions(prior.combined_data, l)),
                             SeriesOf(combined), Contested(combined.log))
        /\ SeriesOf(CombineFiles(combiner, FilesOf(filepaths))) = SeriesOf(combined)

\* two files with rows at both timestamps, one timestamp contested, combined
\* a second time on the same combiner
C4_Witness ==
    /\ called
    /\ Len(filepaths) = 2
    /\ prior = combiner
    /\ prior # NewCombiner
    /\ Contested(combined.log) # {}
    /\ Len(combined.timestamps) = 2
    /\ \E fl \in Orderings(FilesOf(filepaths)) :
            SeriesOf(CombineFiles(NewCombiner, fl)) # SeriesOf(combined)

\* ------------------------------------------------------------------------
\* Properties of the analysis run
\* ------------------------------------------------------------------------

\* the analysis function has been entered with start instant T0
InAnalysis == frame.days > 0
T0 == ParseDateArg(args.date)
Metrics == ProfileMetrics(args.spoke)

IsDaily(r) == r.kind = "query_range" /\ r.step = 24 /\ r.range = 24
IsHourly(r) == r.kind = "query_range" /\ r.step = 1 /\ r.range = 1
DailyRequests == SelectSeq(requests, IsDaily)
HourlyRequests == SelectSeq(requests, IsHourly)

\* requests of one kind issued for metric number k
DailyCount(k) ==
    Cardinality({j \in DOMAIN requests :
        /\ IsDaily(requests[j])
        /\ requests[j].method = Metrics[k][1]
        /\ requests[j].name = Metrics[k][2]
        /\ requests[j].start = requests[j].end})
HourlyCount(k) ==
    Cardinality({j \in DOMAIN requests :
        /\ IsHourly(requests[j])
        /\ requests[j].method = Metrics[k][1]
        /\ requests[j].name = Metrics[k][2]})

\* C5: the daily loop queries window i at T0 + i*24h for every metric of the
\* profile in turn, so that consecutive windows of a metric are exactly 24h
\* apart, and the results of iteration i carry one and the same label, the
\* one of day i+1 at that instant, for every metric.
C5_DailyWindowsEvery24h ==
    InAnalysis =>
        \A M \in {Len(Metrics)}, d \in {DailyRequests} :
           /\ Len(d) <= M * frame.days
           /\ \A j \in DOMAIN d :
                /\ d[j].method = Metrics[((j - 1) % M) + 1][1]
                /\ d[j].start = Fmt(T0 + 24 * ((j - 1) \div M))
                /\ d[j].end = d[j].start
           /\ \A j \in DOMAIN d :
                (j + M) \in DOMAIN d => Unfmt(d[j + M].start) - Unfmt(d[j].start) = 24
           /\ \A k \in DOMAIN frame.results_with_labels :
                /\ Len(frame.results_with_labels[k]) = frame.i
                /\ \A j \in DOMAIN frame.results_with_labels[k] :
                      frame.results_with_labels[k][j][2]
                         = TimeRangeLabel(j - 1, Fmt(T0 + 24 * (j - 1)))

\* a loop of three days has run to its end
C5_Witness ==
    /\ InAnalysis
    /\ frame.days = 3
    /\ frame.i = 3
    /\ Len(DailyRequests) = 3 * Len(Metrics)
    /\ DailyRequests[Len(DailyRequests)].start = Fmt(T0 + 48)

\* C6: the hourly window is [T0 - 24h, T0 + (N-1)*24h] of the T0 the run was
\* started with, which the daily loop leaves as it was; Jan 15 00:00 with
\* N = 3 gives Jan 14 00:00 to Jan 17 00:00. Hub and spoke alike.
C6_HourlyWindowFromOriginalT0 ==
    InAnalysis =>
        /\ frame.date_str = T0
        /\ pc \in {"hourly_query", "hourly_show"} =>
              /\ frame.hourly_start_time = Fmt(T0 - 24)
              /\ frame.hourly_end_time = Fmt(T0 + 24 * (frame.days - 1))
        /\ \A j \in DOMAIN requests :
              IsHourly(requests[j]) =>
                 /\ requests[j].start = Fmt(T0 - 24)
                 /\ requests[j].end = Fmt(T0 + 24 * (frame.days - 1))
                 /\ (args.date = "15/01/2024 00:00:00" /\ args.days = 3) =>
                       /\ requests[j].start = [day |-> 14, hour |-> 0]
                       /\ requests[j].end = [day |-> 17, hour |-> 0]

\* the hourly queries of a three-day spoke run from Jan 15 00:00 are out
C6_Witness ==
    /\ InAnalysis
    /\ args.date = "15/01/2024 00:00:00"
    /\ args.days = 3
    /\ args.spoke
    /\ frame.current_date = T0 + 72
    /\ Len(HourlyRequests) = Len(Metrics)
    /\ HourlyRequests[1].start = [day |-> 14, hour |-> 0]
    /\ HourlyRequests[1].end = [day |-> 17, hour |-> 0]

\* C7: no metric is ever queried more than N times at daily granularity or
\* more than once over the hourly window, no request is issued twice, and a
\* run that ends without a failed backend call has queried every metric of
\* its profile (4 hub, 3 spoke) exactly N times daily and exactly once hourly.
C7_EachMetricQueriedNTimesAndOnce ==
    InAnalysis =>
        /\ Len(Metrics) = IF args.spoke THEN 3 ELSE 4
        /\ \A k \in DOMAIN Metrics :
              /\ DailyCount(k) <= frame.days
              /\ HourlyCount(k) <= 1
        /\ \A i, j \in DOMAIN requests :
              (/\ i # j
               /\ requests[i].kind = "query_range"
               /\ requests[j].kind = "query_range"
               /\ requests[i].method = requests[j].method
               /\ requests[i].step = requests[j].step)
                 => requests[i].start # requests[j].start
        /\ (pc = "exit" /\ failure # "backend") =>
              \A k \in DOMAIN Metrics :
                 /\ DailyCount(k) = frame.days
                 /\ HourlyCount(k) = 1

\* a hub run of two days has ended and none of its backend calls failed
C7_Witness ==
    /\ InAnalysis
    /\ pc = "exit"
    /\ failure # "backend"
    /\ ~args.spoke
    /\ args.days = 2
    /\ Len(DailyRequests) = 8
    /\ Len(HourlyRequests) = 4

\* reports rendered for metric number k at a stage
Rendered(k, stage) ==
    \E j \in DOMAIN reports :
        reports[j].stage = stage /\ reports[j].metric = Metrics[k][1]

\* C8: a run in which a backend call failed has, when it ends, still
\* queried every window of every metric and rendered every metric.
C8_FailedCallDoesNotHaltRun ==
    (InAnalysis /\ pc = "exit" /\ failure = "backend") =>
        \A k \in DOMAIN Metrics :
           /\ DailyCount(k) = frame.days
           /\ HourlyCount(k) = 1
           /\ Rendered(k, "daily")

\* the printed lines of a report show the text
Shows(report, text) ==
    \E l \in DOMAIN report.shown.lines : report.shown.lines[l].text = text

\* C9: the report rendered from a result of zero series shows every
\* suggestion of the result's error_info.
C9_EmptyResultReportShowsSuggestions ==
    \A j \in DOMAIN reports :
       \A n \in DOMAIN reports[j].results :
          LET result == reports[j].results[n]
          IN "error_info" \in DOMAIN result =>
                \A q \in DOMAIN result.error_info.suggestions :
                   Shows(reports[j], result.error_info.suggestions[q])

\* C10: a get_*_for_date_range call the backend answered successfully does
\* not raise; on zero series it returns status 'success', an empty result
\* list and an error_info of message, non-empty suggestions and the queried
\* time range; on one series or more it returns the backend's answer as it
\* is, without error_info.
C10_EmptyAnswerIsValueWithErrorInfo ==
    \A j \in DOMAIN requests :
       LET r == requests[j]
       IN (r.kind = "query_range" /\ r.answer.ok) =>
             /\ ~r.raised
             /\ IF r.answer.body.data.result = <<>>
                THEN /\ r.value.status = "success"
                     /\ r.value.data.result = <<>>
                     /\ "error_info" \in DOMAIN r.value
                     /\ DOMAIN r.value.error_info = {"message", "suggestions", "time_range"}
                     /\ r.value.error_info.message = EmptyMessage(r.method, r.name)
                     /\ Len(r.value.error_info.suggestions) > 0
                     /\ r.value.error_info.suggestions = Suggestions(r.method)
                     /\ r.value.error_info.time_range = <<r.start, "to", r.end>>
                ELSE /\ r.value = r.answer.body
                     /\ "error_info" \notin DOMAIN r.value

\* one call was answered with zero series and another with a series
C10_Witness ==
    \E i, j \in DOMAIN requests :
       /\ requests[i].kind = "query_range"
       /\ requests[j].kind = "query_range"
       /\ requests[i].answer.ok
       /\ requests[j].answer.ok
       /\ requests[i].answer.body.data.result = <<>>
       /\ "error_info" \in DOMAIN requests[i].value
       /\ requests[j].answer.body.data.result # <<>>
       /\ requests[j].value = requests[j].answer.body

\* the command line carries a fatal configuration error
ConfigError == ~ArgsValid(args.date, args.days, args.day_labels)

\* C11: a run whose command line has a malformed date, a non-positive day
\* count or a label count different from the day count never creates the
\* client and never sends a request to the backend.
C11_ConfigErrorBeforeAnyBackendCall ==
    (pc # "idle" /\ ConfigError) =>
        /\ ~client
        /\ requests = <<>>
        /\ pc \in {"main", "exit"}

\* a run given two labels for three days has ended
C11_Witness ==
    /\ pc = "exit"
    /\ DateArgOk(args.date)
    /\ args.days = 3
    /\ args.day_labels # None
    /\ Len(args.day_labels) = 2
    /\ ~client
    /\ requests = <<>>

\* C12: a run whose command line carries a fatal configuration error ends
\* with a non-zero exit status.
C12_ConfigErrorExitsNonZero ==
    (pc = "exit" /\ ConfigError) => exit_code # 0

\* ------------------------------------------------------------------------
\* Properties of CSV ingestion: skipped rows, missing files, columns
\* ------------------------------------------------------------------------

\* the row has a parsable timestamp and a parsable value in the selected column
RowValid(header, cells) ==
    LET ts_raw == RowGet(header, cells, "timestamp", "")
        col == SelectedColumn(header)
    IN /\ ts_raw # None
       /\ col # None
       /\ RowGet(header, cells, col[1], "") # None
       /\ StrptimeOk(Strip(ts_raw[1]))
       /\ FloatOk(Strip(RowGet(header, cells, col[1], "")[1]))

\* positions <<file, line>> of the non-blank rows, and of the valid rows, of a file list
OfferedRows(paths) ==
    UNION {{<<i, k>> : k \in {j \in DOMAIN disk[paths[i]].rows : disk[paths[i]].rows[j] # <<>>}} :
                i \in DOMAIN paths}
ValidRows(paths) ==
    {ik \in OfferedRows(paths) :
        RowValid(disk[paths[ik[1]]].header, disk[paths[ik[1]]].rows[ik[2]])}

\* C13: rows that cannot be used are skipped and nothing else is lost: every
\* valid row of every file of the list is ingested, whatever rows (short
\* ones included) come before it.
C13_InvalidRowsSkippedOthersIngested ==
    called => Len(combined.log) = Cardinality(ValidRows(filepaths))

\* rows of the file list that were not ingested
SkippedRows == Cardinality(OfferedRows(filepaths)) - Len(combined.log)

\* C20: the number of rows skipped during ingestion is reported by a line of
\* the ingestion output.
C20_SkippedRowsReported ==
    called => \E l \in DOMAIN combined.printed :
                 combined.printed[l].values = <<SkippedRows>>

\* the paths of a list that name a file that can be opened
RECURSIVE Present(_)
Present(paths) ==
    IF paths = <<>> THEN <<>>
    ELSE (IF disk[paths[1]].exists THEN <<paths[1]>> ELSE <<>>) \o Present(Tail(paths))

\* C14: a file that cannot be opened makes read_csv_file return 0 and leave
\* combined_data as it was, and the call ingests every other file of the
\* list: what it returns, counts and keeps is what the list without the
\* missing files gives.
C14_MissingFileContributesNothing ==
    called =>
        /\ \A i \in DOMAIN filepaths :
              ~disk[filepaths[i]].exists => combined.returns[i] = 0
        /\ ReadCsvFile(combiner, NoFile, <<>>).obj = combiner
        /\ ReadCsvFile(combiner, NoFile, <<>>).ret = 0
        /\ \E r \in {CombineFiles(prior, FilesOf(Present(filepaths)))} :
              /\ r.log = combined.log
              /\ SeriesOf(r) = SeriesOf(combined)
              /\ r.total_read = combined.total_read
              /\ r.obj = combiner

\* a missing file stood between two files that were both ingested
C14_Witness ==
    /\ called
    /\ filepaths = <<"a.csv", "missing.csv", "b.csv">>
    /\ combined.returns = <<1, 0, 1>>
    /\ Len(combined.log) = 2
    /\ Len(combined.timestamps) = 2

\* the recognised value columns of a header, and the one of highest priority
ValueColumnsIn(header) == {c \in Range(ValueColumns) : HasColumn(header, c)}
PriorityOf(c) == CHOOSE k \in DOMAIN ValueColumns : ValueColumns[k] = c
TopColumn(header) ==
    CHOOSE c \in ValueColumnsIn(header) :
        \A o \in ValueColumnsIn(header) : PriorityOf(c) <= PriorityOf(o)

\* what a row gives when its value is read from the column of highest priority
TopUsable(header, cells) ==
    /\ ValueColumnsIn(header) # {}
    /\ RowGet(header, cells, "timestamp", "") # None
    /\ RowGet(header, cells, TopColumn(header), "") # None
    /\ StrptimeOk(Strip(RowGet(header, cells, "timestamp", "")[1]))
    /\ FloatOk(Strip(RowGet(header, cells, TopColumn(header), "")[1]))
TopInsertion(header, cells) ==
    <<Strptime(Strip(RowGet(header, cells, "timestamp", "")[1])),
      Float(Strip(RowGet(header, cells, TopColumn(header), "")[1]))>>

\* C15: the value ingested for a row is the one of the first column present
\* in the order value_seconds, value_bytes, value_bytes_per_s, value, Value,
\* and of no other: the insertions made are those of the rows usable through
\* that column, with the value of that column.
C15_ValueFromFirstPresentColumn ==
    called =>
        Range(combined.log) =
            {TopInsertion(disk[filepaths[ik[1]]].header, disk[filepaths[ik[1]]].rows[ik[2]]) :
                ik \in {p \in OfferedRows(filepaths) :
                          TopUsable(disk[filepaths[p[1]]].header,
                                    disk[filepaths[p[1]]].rows[p[2]])}}

\* a row holding 10 under Value and 20 under value_seconds was ingested as 20
C15_Witness ==
    /\ called
    /\ filepaths = <<"a.csv">>
    /\ disk["a.csv"].header = <<"timestamp", "Value", "value_seconds">>
    /\ disk["a.csv"].rows = <<<<TS0, "10", "20">>>>
    /\ combined.log = <<<<0, 20>>>>

\* rows supplying a metric_name
Supplies(header, cells) ==
    /\ HasColumn(header, "metric_name")
    /\ Truthy(RowGet(header, cells, "metric_name", ""))
SupplyingRows(paths) ==
    {ik \in OfferedRows(paths) :
        Supplies(disk[paths[ik[1]]].header, disk[paths[ik[1]]].rows[ik[2]])}
Earlier(p, q) == p[1] < q[1] \/ (p[1] = q[1] /\ p[2] <= q[2])

\* C16: the display name is the metric_name of the first row, in ingestion
\* order, that supplies one; while no row has supplied one the name is not set.
C16_NameFromFirstSupplyingRow ==
    (called /\ ~Truthy(prior.metric_name)) =>
        IF SupplyingRows(filepaths) = {}
        THEN ~Truthy(combiner.metric_name)
        ELSE \E p \in SupplyingRows(filepaths) :
                /\ \A q \in SupplyingRows(filepaths) : Earlier(p, q)
                /\ combiner.metric_name =
                      RowGet(disk[filepaths[p[1]]].header,
                             disk[filepaths[p[1]]].rows[p[2]], "metric_name", "")

\* the separators generate_graph owes to its day labels: boundary k for
\* every k < K when a start date fixes the axis, and otherwise boundary 0
\* and those up to the last timestamp
OwedBoundaries(n_labels) ==
    {k \in 0..(n_labels - 1) : k = 0 \/ graph.x_start + 24 * k <= graph.x_end}

\* C19 as stated: with K day labels a separator is drawn at x_start + k*24h
\* for every k in 0..K-1, each with label k of the list.
C19_SeparatorAtEveryBoundary ==
    (graph.drawn /\ HasLabels(cli.day_labels)) =>
        /\ Len(graph.separators) = Len(cli.day_labels)
        /\ \A k \in DOMAIN graph.separators :
              /\ graph.separators[k].pos = graph.x_start + 24 * (k - 1)
              /\ graph.separators[k].text = cli.day_labels[k]

\* C19: with K day labels and a non-empty series, separators are drawn at
\* x_start + k*24h for k = 0 and for every further k < K whose boundary is
\* not after the end of the x axis (all K of them when a start date is
\* given, the axis then ending at start + K days); separator k carries
\* label k of the list and never the fallback text.
C19_SeparatorsWithinAxisLabelled ==
    (graph.drawn /\ HasLabels(cli.day_labels)) =>
        /\ Len(graph.separators) = Cardinality(OwedBoundaries(Len(cli.day_labels)))
        /\ \A k \in DOMAIN graph.separators :
              /\ (k - 1) \in OwedBoundaries(Len(cli.day_labels))
              /\ graph.separators[k].pos = graph.x_start + 24 * (k - 1)
              /\ graph.separators[k].text = cli.day_labels[k]
        /\ cli.start_date # None =>
              /\ graph.x_end = graph.x_start + 24 * Len(cli.day_labels)
              /\ Len(graph.separators) = Len(cli.day_labels)

\* three labels on a series of two days and a quarter, no start date: all
\* three separators; and the same labels on a shorter series: fewer
C19_Witness ==
    /\ graph.drawn
    /\ cli.day_labels # None
    /\ Len(cli.day_labels) = 3
    /\ cli.start_date = None
    /\ graph.x_end - graph.x_start = 54
    /\ Len(graph.separators) = 3
    /\ graph.separators[3].pos = graph.x_start + 48
    /\ graph.separators[3].text = cli.day_labels[3]

\* ------------------------------------------------------------------------
\* Properties of the figures and tables
\* ------------------------------------------------------------------------

\* the value plotted at point i, as an exact quotient
PlottedValue(i) ==
    IF graph.kind = "combined" THEN Rat(graph.points[i][2], 1) ELSE graph.points[i][2]

\* C17: in both graph functions the growth shown is (last - first) / first
\* * 100 over the series in timestamp order, it is 0 when the first value
\* is 0, and no divisor is zero for a non-empty series.
C17_GrowthOverSortedSeries ==
    graph.drawn =>
        /\ Len(graph.points) > 0
        /\ graph.stats.points = Len(graph.points)
        /\ \A i, j \in DOMAIN graph.points :
              i < j => graph.points[i][1] <= graph.points[j][1]
        /\ graph.stats.avg.den # 0
        /\ graph.stats.growth.den # 0
        /\ IF PlottedValue(1).num = 0
           THEN graph.stats.growth = Rat(0, 1)
           ELSE RMul(graph.stats.growth, PlottedValue(1))
                   = RMul(RSub(PlottedValue(Len(graph.points)), PlottedValue(1)), Rat(100, 1))

\* an hourly figure of a result whose samples came latest first: the
\* earliest value is 0, the latest is not, and the growth shown is 0
C17_Witness ==
    /\ graph.drawn
    /\ graph.kind = "hourly"
    /\ cli.done
    /\ AllSamples(cli.results_data.data.result)[1][1] = 24
    /\ graph.points[1][1] = 0
    /\ PlottedValue(1).num = 0
    /\ PlottedValue(Len(graph.points)).num # 0
    /\ graph.stats.growth = Rat(0, 1)

\* the rows a table shows, and the place in the call of a row's window
TableRows(j) == reports[j].shown.rows
WindowOf(row) ==
    CHOOSE k \in DOMAIN cli.results_data : Some(cli.results_data[k][2]) = row.label

\* C18 as stated: the rows are in ascending timestamp order and, when
\* several windows are shown, in the order of the window labels first.
C18_RowsByLabelThenTimestamp ==
    \A j \in DOMAIN reports :
       \A k \in DOMAIN TableRows(j) :
          (k + 1) \in DOMAIN TableRows(j) =>
             /\ ~TimestampBefore(TableRows(j)[k + 1].timestamp, TableRows(j)[k].timestamp)
             /\ TableRows(j)[k].label # None =>
                   TableRows(j)[k].label[1][2] <= TableRows(j)[k + 1].label[1][2]

\* C18: the rows are in ascending order of the timestamp column, whatever
\* the window labels are; rows of equal timestamp stay in the order of the
\* windows passed; every sample of every window has its row.
C18_RowsByTimestampOnly ==
    (cli.fn = "display_metric_usage_date_range_results" /\ cli.done) =>
        \A j \in DOMAIN reports :
           /\ Len(TableRows(j)) =
                 Len(AllRows(cli.results_data, 1, "metric"))
           /\ \A k \in DOMAIN TableRows(j) :
                 (k + 1) \in DOMAIN TableRows(j) =>
                    /\ ~TimestampBefore(TableRows(j)[k + 1].timestamp, TableRows(j)[k].timestamp)
                    /\ (/\ TableRows(j)[k + 1].timestamp = TableRows(j)[k].timestamp
                        /\ TableRows(j)[k].label # None)
                          => WindowOf(TableRows(j)[k]) <= WindowOf(TableRows(j)[k + 1])

\* the window labelled 2 holds the earlier sample: its row comes first
C18_Witness ==
    /\ cli.fn = "display_metric_usage_date_range_results"
    /\ cli.done
    /\ Len(reports) = 1
    /\ Len(cli.results_data) = 2
    /\ cli.results_data[1][2] = <<"Window", 1>>
    /\ Len(TableRows(1)) = 2
    /\ TableRows(1)[1].label = Some(<<"Window", 2>>)
    /\ TableRows(1)[2].label = Some(<<"Window", 1>>)
    /\ TimestampBefore(TableRows(1)[1].timestamp, TableRows(1)[2].timestamp)

\* C23: read_csv_file returns the number of insertions the call made into
\* combined_data (overwrites included), and a call that returns 0 has left
\* combined_data as it was: the returns of the files of a list add up to the
\* insertions of the list, and a list of one file that returned 0 changed
\* nothing.
C23_ReturnCountsInsertions ==
    called =>
        /\ combined.total_read = Len(combined.log)
        /\ (Len(filepaths) = 1 /\ combined.returns[1] = 0) =>
                combiner.combined_data = prior.combined_data

\* C24: the duplicates-removed figure a call reports is never negative.
C24_DuplicatesRemovedNeverNegative ==
    called => combined.duplicates_removed >= 0

\* the reports of the hourly stage, in order
HourlyReports == SelectSeq(reports, LAMBDA r : r.stage = "hourly")

\* every range request of the run was answered with at least one series
AllAnswersNonEmpty ==
    \A j \in DOMAIN requests :
        requests[j].kind = "query_range" =>
            /\ requests[j].answer.ok
            /\ requests[j].answer.body.data.result # <<>>

\* C21: a hub run in which every backend call returned non-empty success
\* data has, when it ends, shown the table of each of the four metrics in
\* order, each followed by its graph export and its CSV export, and has
\* not reported a failed analysis.
C21_HourlyStageCompletes ==
    (pc = "exit" /\ InAnalysis /\ ~args.spoke /\ AllAnswersNonEmpty) =>
        /\ failure = "none"
        /\ Len(HourlyReports) = Len(HubMetrics)
        /\ \A k \in DOMAIN HourlyReports :
              /\ HourlyReports[k].metric = HubMetrics[k][1]
              /\ HourlyReports[k].shown.kind = "table"
              /\ HourlyReports[k].calls =
                    <<"display_hourly_table_results", "export_hourly_graph", "export_hourly_csv">>
              /\ HourlyReports[k].raised = "none"

\* the hourly result of a report is a success with at least one series
TableShown(r) ==
    r.results[1].status = "success" /\ r.results[1].data.result # <<>>

\* C22: show_hourly_analysis calls an export only after the table of the
\* metric was shown (a successful, non-empty hourly result); for any other
\* result it makes no export call, raises nothing, and the run goes on to
\* the next metric.
C22_ExportsOnlyAfterTable ==
    \A H \in {HourlyReports} : \A k \in DOMAIN H :
        /\ (\E c \in DOMAIN H[k].calls :
                H[k].calls[c] \in {"export_hourly_graph", "export_hourly_csv"})
              => (TableShown(H[k]) /\ H[k].calls[1] = "display_hourly_table_results")
        /\ ~TableShown(H[k]) =>
              /\ H[k].calls = <<"display_hourly_table_results">>
              /\ H[k].raised = "none"
              /\ H[k].shown.kind = "hourly_failed"
              /\ (pc \in {"returned", "exit"} /\ k < Len(Metrics)) =>
                    /\ k + 1 \in DOMAIN H
                    /\ H[k + 1].metric = Metrics[k + 1][1]

\* an empty hourly result was passed over without export and the next
\* metric, which had data, got its table and the call of its graph export
C22_Witness ==
    \E k \in DOMAIN HourlyReports :
        /\ k + 1 \in DOMAIN HourlyReports
        /\ ~TableShown(HourlyReports[k])
        /\ HourlyReports[k].calls = <<"display_hourly_table_results">>
        /\ TableShown(HourlyReports[k + 1])
        /\ HourlyReports[k + 1].calls[2] = "export_hourly_graph"

\* C25: the label list show_hourly_analysis is called with has one entry
\* per analysed day, with or without --day-labels.
C25_OneLabelPerDay ==
    \A k \in DOMAIN HourlyReports : Len(HourlyReports[k].day_labels) = args.days

\* the <<method, name>> pairs a profile queries
ProfileTargets(spoke) ==
    {<<ProfileMetrics(spoke)[k][1], ProfileMetrics(spoke)[k][2]>> :
        k \in DOMAIN ProfileMetrics(spoke)}

\* C29: a range query is issued only after check_connection returned True
\* and the test query completed; a run whose connection check fails or
\* whose test query raises ends with exit status 1 and no range query;
\* otherwise the analysis of exactly one profile, the one --spoke selects,
\* runs.
C29_RangeQueriesOnlyAfterChecks ==
    /\ \A j \in DOMAIN requests :
          requests[j].kind = "query_range" =>
              /\ j > 2
              /\ requests[1].kind = "check_connection" /\ requests[1].ok
              /\ requests[2].kind = "query" /\ requests[2].ok
              /\ <<requests[j].method, requests[j].name>> \in ProfileTargets(args.spoke)
              /\ <<requests[j].method, requests[j].name>> \notin ProfileTargets(~args.spoke)
    /\ (\E j \in DOMAIN requests :
            requests[j].kind \in {"check_connection", "query"} /\ ~requests[j].ok) =>
          /\ pc = "exit"
          /\ exit_code = 1
          /\ \A j \in DOMAIN requests : requests[j].kind # "query_range"
          /\ ~InAnalysis
    /\ (Len(requests) >= 2 /\ requests[1].ok /\ requests[2].ok) =>
          /\ InAnalysis
          /\ Len(frame.results_with_labels) = Len(ProfileMetrics(args.spoke))

\* the connection was verified, the test query raised, and the run ended
\* with status 1 before any range query
C29_Witness ==
    /\ pc = "exit"
    /\ exit_code = 1
    /\ Len(requests) = 2
    /\ requests[1].kind = "check_connection" /\ requests[1].ok
    /\ requests[2].kind = "query" /\ ~requests[2].ok

\* samples of a result that are to be shown: none for a result whose status
\* is not 'success'
ShownSamples(result) ==
    IF result.status # "success" THEN <<>>
    ELSE [i \in DOMAIN result.data.result |-> result.data.result[i].values]
SampleCount(results) ==
    Sum([k \in DOMAIN results |->
            Sum([i \in DOMAIN ShownSamples(results[k]) |-> Len(ShownSamples(results[k])[i])])])
FailedCount(results) ==
    Cardinality({k \in DOMAIN results : results[k].status # "success"})

\* C26: display_metric_usage_date_range_results passes over every result
\* whose status is not 'success', counting it as a failed query, and every
\* result without series, and shows one row per sample of every other
\* result; it prints the table exactly when there is at least one row and
\* the no-data lines otherwise, with the count of failed queries when
\* there is one.
C26_FailedAndEmptyResultsSkipped ==
    (cli.fn = "display_metric_usage_date_range_results" /\ cli.done) =>
        \A j \in DOMAIN reports :
          \E n \in {SampleCount(reports[j].results)}, f \in {FailedCount(reports[j].results)} :
            /\ Len(reports[j].shown.rows) = n
            /\ \A k \in DOMAIN reports[j].results :
                 \A i \in DOMAIN ShownSamples(reports[j].results[k]) :
                   \A q \in DOMAIN ShownSamples(reports[j].results[k])[i] :
                     \E row \in Range(reports[j].shown.rows) :
                        /\ row.timestamp = Fmt(ShownSamples(reports[j].results[k])[i][q][1])
                        /\ row.value = ShownSamples(reports[j].results[k])[i][q][2]
                        /\ Len(reports[j].results) > 1 => row.label = Some(cli.results_data[k][2])
            /\ reports[j].shown.kind = IF n > 0 THEN "table" ELSE "no_data"
            /\ n = 0 => Shows(reports[j], "No metric usage data found for the specified time ranges")
            /\ n > 0 => Shows(reports[j], "Found data points across time range(s)")
            /\ f > 0 <=> \E l \in DOMAIN reports[j].shown.lines :
                            reports[j].shown.lines[l] =
                                Line("out of queries failed", <<f, Len(reports[j].results)>>)

\* a failed result came first and the samples of the second were shown
C26_Witness ==
    /\ cli.fn = "display_metric_usage_date_range_results"
    /\ cli.done
    /\ Len(reports) = 1
    /\ Len(reports[1].results) = 2
    /\ reports[1].results[1].status # "success"
    /\ reports[1].shown.kind = "table"
    /\ Len(reports[1].shown.rows) = 2
    /\ Shows(reports[1], "out of queries failed")

\* C27: generate_graph sets the x axis to [x_start - 3h, x_end], x_start
\* the start date given, else the first timestamp, and x_end the start date
\* plus one day per label when both are given, else the last timestamp; the
\* left end of the axis is before its right end and the first boundary
\* line, at x_start, lies on the axis.
C27_AxisRangeNotInverted ==
    (cli.fn = "generate_graph" /\ cli.done /\ graph.drawn) =>
        /\ graph.x_start = IF cli.start_date # None THEN cli.start_date[1]
                           ELSE cli.series[1][1]
        /\ graph.x_end = IF cli.start_date # None /\ HasLabels(cli.day_labels)
                         THEN cli.start_date[1] + 24 * Len(cli.day_labels)
                         ELSE cli.series[Len(cli.series)][1]
        /\ graph.xlim = <<graph.x_start - 3, graph.x_end>>
        /\ graph.xlim[1] < graph.xlim[2]
        /\ graph.xlim[1] <= graph.x_start /\ graph.x_start <= graph.xlim[2]

\* C28: create_hourly_usage_graph draws one separator at start + k*24h for
\* every k >= 1 with start + k*24h < end, and none elsewhere; for the
\* hourly window of an N-day run starting at T0 these are the N-1 instants
\* T0 + i*24h, 0 <= i <= N-2, each the start of a daily window.
C28_SeparatorsAtDailyInstants ==
    (/\ cli.fn = "create_hourly_usage_graph" /\ cli.done /\ graph.drawn
     /\ cli.start_time # None /\ cli.end_time # None) =>
        \E start \in {Unfmt(cli.start_time[1])}, end \in {Unfmt(cli.end_time[1])} :
            /\ Range(graph.separators) =
                    {start + 24 * k : k \in {j \in 1..((end - start) \div 24 + 1) :
                                                start + 24 * j < end}}
            /\ Len(graph.separators) = Cardinality(Range(graph.separators))
            /\ \A n \in 1..(MaxDays + 1) :
                  (/\ cli.start_time[1] = HourlyWindow(start + 24, n).start
                   /\ cli.end_time[1] = HourlyWindow(start + 24, n).end) =>
                      /\ Range(graph.separators) = {(start + 24) + 24 * i : i \in 0..(n - 2)}
                      /\ Len(graph.separators) = n - 1
                      /\ \A k \in DOMAIN graph.separators :
                            \E i \in 0..(n - 1) :
                                graph.separators[k] = NextDay(start) + 24 * i

\* the figure of the hourly window of a three-day run has its two
\* separators at the starts of the first two daily windows
C28_Witness ==
    /\ cli.fn = "create_hourly_usage_graph"
    /\ cli.done
    /\ graph.drawn
    /\ cli.start_time = Some(HourlyWindow(RunStart, 3).start)
    /\ cli.end_time = Some(HourlyWindow(RunStart, 3).end)
    /\ graph.separators = <<RunStart, NextDay(RunStart)>>

\* the samples create_hourly_usage_graph was called with
HourlySamplesGiven ==
    IF cli.results_data.status = "success" /\ cli.results_data.data.result # <<>>
    THEN AllSamples(cli.results_data.data.result) ELSE <<>>

\* C30: mean, minimum, maximum and growth are computed over at least one
\* point: generate_graph and create_hourly_usage_graph called without
\* points return, raising nothing, before any figure or statistic, every
\* figure's statistics cover the points it plots, and main() of
\* csv_combiner.py returns 1 and draws nothing when the combined series is
\* empty.
C30_NoStatisticsOverEmptySeries ==
    /\ graph.drawn =>
          /\ graph.stats.points >= 1
          /\ graph.stats.points = Len(graph.points)
          /\ graph.stats.avg.den # 0
    /\ (cli.fn = "generate_graph" /\ cli.done /\ cli.series = <<>>) => graph = NoGraph
    /\ (cli.fn = "create_hourly_usage_graph" /\ cli.done /\ HourlySamplesGiven = <<>>) =>
          graph = NoGraph
    /\ (cli.fn = "main" /\ cli.ret # None) =>
          /\ combined.timestamps = <<>> => (cli.ret = Some(1) /\ graph = NoGraph)
          /\ combined.timestamps # <<>> => (cli.ret = Some(0) /\ graph.drawn)

\* generate_graph was called with an empty series and drew nothing
C30_Witness ==
    /\ cli.fn = "generate_graph"
    /\ cli.done
    /\ cli.series = <<>>
    /\ cli.day_labels # None
    /\ graph = NoGraph

====
